---- MODULE Spec2Model ----
(***************************************************************************)
(* A model of the typed-value tunnel of Python-RPC: the value codec        *)
(* (utils.convert_value_for_xmlrpc / convert_value_from_xmlrpc), the       *)
(* envelope (utils.Data), the client call adapter                          *)
(* (client.DataServerProxy._Method.__call__, XMLRPCClient._return_result)  *)
(* and the server dispatch interceptor                                     *)
(* (server.ThreadedXMLRPCServer._dispatch).                                *)
(*                                                                         *)
(* Python values are tagged records, so that the kind of a value (int,     *)
(* float, bool, str, None, list, tuple, dict, Data) is part of the value   *)
(* and "42", 42 and 42.0 are three different values.  Python strings are   *)
(* TLA+ strings; TLC evaluates Len, SubSeq and \o on them, which is what   *)
(* startswith, slicing and f-string formatting need.                       *)
(*                                                                         *)
(* Value space.  Integers are TLC integers (the model keeps them small).   *)
(* A finite float is a whole number of hundredths, h/100; the special      *)
(* floats inf, -inf, nan and -0.0 are classes of their own, and "offgrid"  *)
(* stands for a finite float that is no whole number of hundredths.  Two   *)
(* values are equal when they are the same record: nan equals nan here     *)
(* (the restored value is nan again), where Python's == would say False.   *)
(***************************************************************************)
EXTENDS Integers, Sequences, FiniteSets, TLC

VARIABLES
    cv,     \* the codec under test: the original value, the current value, the conversions applied
    call,   \* per call: the client's arguments, what is on the wire, the worker's locals, the outcome
    box,    \* the envelope under test: the arguments of Data(...), the object built, what its getters gave
    instance \* the attributes the registered MathFunctions instance holds itself

vars == <<cv, call, box, instance>>

----------------------------------------------------------------------------
(* Python values *)

PyNone == [t |-> "NoneType"]
PyBool(b) == [t |-> "bool", b |-> b]
PyInt(n) == [t |-> "int", i |-> n]
PyStr(s) == [t |-> "str", s |-> s]
PyList(l) == [t |-> "list", l |-> l]
PyTuple(l) == [t |-> "tuple", l |-> l]
PyDict(d) == [t |-> "dict", d |-> d]
\* a finite float of h hundredths, and the special floats
PyFloat(h) == [t |-> "float", c |-> "fin", h |-> h]
PyInf == [t |-> "float", c |-> "inf", h |-> 0]
PyNegInf == [t |-> "float", c |-> "ninf", h |-> 0]
PyNaN == [t |-> "float", c |-> "nan", h |-> 0]
PyNegZero == [t |-> "float", c |-> "nzero", h |-> 0]
PyOffGrid(h) == [t |-> "float", c |-> "offgrid", h |-> h]
\* an instance of a class the codec knows nothing about
PyObject(cls) == [t |-> "object", cls |-> cls]

EmptyDict == [k \in {} |-> PyNone]

\* type(value): the kind of a value
TypeOf(v) == v.t

----------------------------------------------------------------------------
(* Strings: str.startswith, slicing, str.strip, and the decimal text of    *)
(* numbers as str(), int() and float() write and read it                   *)

StartsWith(s, p) == Len(s) >= Len(p) /\ SubSeq(s, 1, Len(p)) = p

\* s[n:]
DropPrefix(s, n) == SubSeq(s, n + 1, Len(s))

CharAt(s, k) == SubSeq(s, k, k)

Digits == "0123456789"

IsDigit(c) == \E d \in 1..10 : CharAt(Digits, d) = c

DigitVal(c) == CHOOSE d \in 0..9 : CharAt(Digits, d + 1) = c

DigitChar(d) == CharAt(Digits, d + 1)

\* the characters int() and float() strip from both ends (space, tab, newline)
Whitespace == {" ", "\t", "\n"}

RECURSIVE LStrip(_)
LStrip(s) ==
    IF Len(s) > 0 /\ CharAt(s, 1) \in Whitespace THEN LStrip(DropPrefix(s, 1)) ELSE s

RECURSIVE RStrip(_)
RStrip(s) ==
    IF Len(s) > 0 /\ CharAt(s, Len(s)) \in Whitespace
    THEN RStrip(SubSeq(s, 1, Len(s) - 1))
    ELSE s

Strip(s) == RStrip(LStrip(s))

\* str(n) of a natural number
RECURSIVE NatToStr(_)
NatToStr(n) == IF n < 10 THEN DigitChar(n) ELSE NatToStr(n \div 10) \o DigitChar(n % 10)

\* str(n), f"{n}" of an integer
IntToStr(n) == IF n < 0 THEN "-" \o NatToStr(-n) ELSE NatToStr(n)

\* A run of decimal digits in which single underscores may separate digits
\* (PEP 515): its value, or -1 when the text is no such run.  prev is what
\* came before: "start", "digit" or "under".
RECURSIVE ParseDigits(_, _, _)
ParseDigits(s, acc, prev) ==
    IF Len(s) = 0
    THEN (IF prev = "digit" THEN acc ELSE -1)
    ELSE LET c == CharAt(s, 1)
             rest == DropPrefix(s, 1)
         IN  IF IsDigit(c) THEN ParseDigits(rest, acc * 10 + DigitVal(c), "digit")
             ELSE IF c = "_" /\ prev = "digit" THEN ParseDigits(rest, acc, "under")
             ELSE -1

\* the sign of a numeric text and the text after it
SignOf(s) == IF Len(s) > 0 /\ CharAt(s, 1) = "-" THEN -1 ELSE 1

Unsigned(s) == IF Len(s) > 0 /\ CharAt(s, 1) \in {"+", "-"} THEN DropPrefix(s, 1) ELSE s

\* int(text): [ok |-> TRUE, v |-> PyInt] or [ok |-> FALSE] for ValueError
ParseInt(s) ==
    LET body == Unsigned(Strip(s))
        n == ParseDigits(body, 0, "start")
    IN  IF n < 0 THEN [ok |-> FALSE] ELSE [ok |-> TRUE, v |-> PyInt(SignOf(Strip(s)) * n)]

\* repr(x), f"{x}" of a float: the shortest text that reads back as x
FloatToStr(x) ==
    CASE x.c = "inf" -> "inf"
      [] x.c = "ninf" -> "-inf"
      [] x.c = "nan" -> "nan"
      [] x.c = "nzero" -> "-0.0"
      [] OTHER ->
            LET a == IF x.h < 0 THEN -x.h ELSE x.h
                frac == a % 100
            IN  (IF x.h < 0 THEN "-" ELSE "")
                    \o NatToStr(a \div 100) \o "."
                    \o (IF frac % 10 = 0
                        THEN DigitChar(frac \div 10)
                        ELSE DigitChar(frac \div 10) \o DigitChar(frac % 10))

\* str.lower() on the letters the special float tokens use
LowerChar(c) ==
    CASE c = "I" -> "i" [] c = "N" -> "n" [] c = "F" -> "f" [] c = "A" -> "a"
      [] c = "T" -> "t" [] c = "Y" -> "y" [] OTHER -> c

RECURSIVE Lower(_)
Lower(s) == IF Len(s) = 0 THEN s ELSE LowerChar(CharAt(s, 1)) \o Lower(DropPrefix(s, 1))

\* the position of the first "." of s, 0 when there is none
RECURSIVE DotAt(_, _)
DotAt(s, k) ==
    IF k > Len(s) THEN 0 ELSE IF CharAt(s, k) = "." THEN k ELSE DotAt(s, k + 1)

\* whether the digits of s from position k on are all "0"
RECURSIVE AllZeroFrom(_, _)
AllZeroFrom(s, k) ==
    IF k > Len(s) THEN TRUE
    ELSE IF CharAt(s, k) \in {"0", "_"} THEN AllZeroFrom(s, k + 1) ELSE FALSE

\* the text without its underscores
RECURSIVE RemoveUnderscores(_)
RemoveUnderscores(s) ==
    IF Len(s) = 0 THEN s
    ELSE IF CharAt(s, 1) = "_" THEN RemoveUnderscores(DropPrefix(s, 1))
    ELSE CharAt(s, 1) \o RemoveUnderscores(DropPrefix(s, 1))

\* float(text): [ok |-> TRUE, v |-> a float] or [ok |-> FALSE] for ValueError.
\* Decimal literals without an exponent are read; a literal with more than two
\* significant fractional digits is a float off the grid of hundredths.
ParseFloat(s) ==
    LET t == Strip(s)
        neg == SignOf(t) < 0
        body == Unsigned(t)
        low == Lower(body)
        dot == DotAt(body, 1)
        ipart == IF dot = 0 THEN body ELSE SubSeq(body, 1, dot - 1)
        fpart == IF dot = 0 THEN "" ELSE DropPrefix(body, dot)
        iv == IF Len(ipart) = 0 THEN 0 ELSE ParseDigits(ipart, 0, "start")
        fv == IF Len(fpart) = 0 THEN 0 ELSE ParseDigits(fpart, 0, "start")
        fclean == RemoveUnderscores(fpart) \o "00"
        hund == DigitVal(CharAt(fclean, 1)) * 10 + DigitVal(CharAt(fclean, 2))
        mag == iv * 100 + hund
    IN  IF low \in {"inf", "infinity"} THEN [ok |-> TRUE, v |-> IF neg THEN PyNegInf ELSE PyInf]
        ELSE IF low = "nan" THEN [ok |-> TRUE, v |-> PyNaN]
        ELSE IF Len(ipart) = 0 /\ Len(fpart) = 0 THEN [ok |-> FALSE]
        ELSE IF iv < 0 \/ fv < 0 THEN [ok |-> FALSE]
        ELSE IF ~AllZeroFrom(fclean, 3) THEN [ok |-> TRUE, v |-> PyOffGrid(iv)]
        ELSE IF mag = 0 /\ neg THEN [ok |-> TRUE, v |-> PyNegZero]
        ELSE [ok |-> TRUE, v |-> PyFloat(IF neg THEN -mag ELSE mag)]

----------------------------------------------------------------------------
(* The value codec, utils.py *)

INT_MARKER == "__INT__"

FLOAT_MARKER == "__FLOAT__"

\* f"{value}" of a number: the text the f-strings of the encoder write
FormatValue(value) ==
    IF value.t = "bool" THEN (IF value.b THEN "True" ELSE "False")
    ELSE IF value.t = "int" THEN IntToStr(value.i)
    ELSE FloatToStr(value)

\* utils.py:66-67: f"__INT__{value}"
EncodeInt(value) == PyStr(INT_MARKER \o FormatValue(value))

\* utils.py:68-69: f"__FLOAT__{value}"
EncodeFloat(value) == PyStr(FLOAT_MARKER \o FormatValue(value))

\* isinstance(value, int): bool is a subclass of int
IsInstanceInt(value) == value.t \in {"int", "bool"}

\* the branch as it would be with the int check ahead of the bool check
EncodeBranchIntFirst(value) ==
    IF IsInstanceInt(value) THEN "int"
    ELSE IF value.t = "bool" THEN "bool"
    ELSE IF value.t = "float" THEN "float"
    ELSE IF value.t \in {"list", "tuple"} THEN "sequence"
    ELSE IF value.t = "dict" THEN "dict"
    ELSE "other"

\* The branch of convert_value_for_xmlrpc a value takes: the isinstance checks
\* in the order the code makes them, the bool check first.
EncodeBranch(value) ==
    IF value.t = "bool" THEN "bool"
    ELSE IF IsInstanceInt(value) THEN "int"
    ELSE IF value.t = "float" THEN "float"
    ELSE IF value.t \in {"list", "tuple"} THEN "sequence"
    ELSE IF value.t = "dict" THEN "dict"
    ELSE "other"

\* the conversion as it would be if it marked the strings that look like markers
RECURSIVE convert_value_escaping(_)
convert_value_escaping(value) ==
    LET br == EncodeBranch(value)
    IN  CASE br = "bool" -> value
          [] br = "int" -> EncodeInt(value)
          [] br = "float" -> EncodeFloat(value)
          [] br = "sequence" ->
                PyList([k \in 1..Len(value.l) |-> convert_value_escaping(value.l[k])])
          [] br = "dict" ->
                PyDict([k \in DOMAIN value.d |-> convert_value_escaping(value.d[k])])
          [] value.t = "str" /\ (StartsWith(value.s, INT_MARKER) \/ StartsWith(value.s, FLOAT_MARKER)) ->
                PyStr("__STR__" \o value.s)
          [] OTHER -> value

\* the conversion as it would be if a sequence kept its kind, type(value)(...)
RECURSIVE convert_value_keeping_kind(_)
convert_value_keeping_kind(value) ==
    LET br == EncodeBranch(value)
    IN  CASE br = "bool" -> value
          [] br = "int" -> EncodeInt(value)
          [] br = "float" -> EncodeFloat(value)
          [] br = "sequence" ->
                [t |-> value.t,
                 l |-> [k \in 1..Len(value.l) |-> convert_value_keeping_kind(value.l[k])]]
          [] br = "dict" ->
                PyDict([k \in DOMAIN value.d |-> convert_value_keeping_kind(value.d[k])])
          [] OTHER -> value

\* the conversion as it would be if every str were tagged too
RECURSIVE convert_value_tagging_str(_)
convert_value_tagging_str(value) ==
    LET br == EncodeBranch(value)
    IN  CASE br = "bool" -> value
          [] br = "int" -> EncodeInt(value)
          [] br = "float" -> EncodeFloat(value)
          [] br = "sequence" ->
                PyList([k \in 1..Len(value.l) |-> convert_value_tagging_str(value.l[k])])
          [] br = "dict" ->
                PyDict([k \in DOMAIN value.d |-> convert_value_tagging_str(value.d[k])])
          [] value.t = "str" -> PyStr("__STR__" \o value.s)
          [] OTHER -> value

RECURSIVE convert_value_for_xmlrpc(_)
convert_value_for_xmlrpc(value) ==
    LET br == EncodeBranch(value)
    IN  CASE br = "bool" -> value
          [] br = "int" -> EncodeInt(value)
          [] br = "float" -> EncodeFloat(value)
          [] br = "sequence" ->
                PyList([k \in 1..Len(value.l) |-> convert_value_for_xmlrpc(value.l[k])])
          [] br = "dict" ->
                PyDict([k \in DOMAIN value.d |-> convert_value_for_xmlrpc(value.d[k])])
          [] OTHER -> value

\* the str branch as it would be if a failed parse gave back what follows the tag
DecodeStrDroppingTag(value) ==
    IF StartsWith(value.s, INT_MARKER)
    THEN LET r == ParseInt(DropPrefix(value.s, Len(INT_MARKER)))
         IN  IF r.ok THEN r.v ELSE PyStr(DropPrefix(value.s, Len(INT_MARKER)))
    ELSE IF StartsWith(value.s, FLOAT_MARKER)
    THEN LET r == ParseFloat(DropPrefix(value.s, Len(FLOAT_MARKER)))
         IN  IF r.ok THEN r.v ELSE PyStr(DropPrefix(value.s, Len(FLOAT_MARKER)))
    ELSE value

\* utils.py:80-92: the str branch of convert_value_from_xmlrpc
DecodeStr(value) ==
    IF StartsWith(value.s, INT_MARKER)
    THEN LET r == ParseInt(DropPrefix(value.s, Len(INT_MARKER)))
         IN  IF r.ok THEN r.v ELSE value
    ELSE IF StartsWith(value.s, FLOAT_MARKER)
    THEN LET r == ParseFloat(DropPrefix(value.s, Len(FLOAT_MARKER)))
         IN  IF r.ok THEN r.v ELSE value
    ELSE value

\* the conversion as it would be if it built a list of a tuple, as the encoder does
RECURSIVE convert_value_from_as_list(_)
convert_value_from_as_list(value) ==
    CASE value.t = "str" -> DecodeStr(value)
      [] value.t \in {"list", "tuple"} ->
            PyList([k \in 1..Len(value.l) |-> convert_value_from_as_list(value.l[k])])
      [] value.t = "dict" ->
            PyDict([k \in DOMAIN value.d |-> convert_value_from_as_list(value.d[k])])
      [] OTHER -> value

RECURSIVE convert_value_from_xmlrpc(_)
convert_value_from_xmlrpc(value) ==
    CASE value.t = "str" -> DecodeStr(value)
      [] value.t = "list" ->
            PyList([k \in 1..Len(value.l) |-> convert_value_from_xmlrpc(value.l[k])])
      [] value.t = "tuple" ->
            PyTuple([k \in 1..Len(value.l) |-> convert_value_from_xmlrpc(value.l[k])])
      [] value.t = "dict" ->
            PyDict([k \in DOMAIN value.d |-> convert_value_from_xmlrpc(value.d[k])])
      [] OTHER -> value

----------------------------------------------------------------------------
(* The envelope, utils.Data *)

\* datetime.datetime.now().isoformat(): informational only, one value stands for all
Timestamp == "2026-01-01T00:00:00"

\* the keyword parameters Data.__init__ names itself; a call Data(*args, **kw)
\* binds these keys of kw to them and only the rest to **kwargs
DataParams == {"response_code", "error", "result"}

Lookup(kw, k) == IF k \in DOMAIN kw THEN kw[k] ELSE PyNone

\* Data.__init__ as it would be if it stored the result as it was given
NewDataRawResult(args, kw) ==
    LET response_code == Lookup(kw, "response_code")
        kwargs == [k \in (DOMAIN kw) \ DataParams |-> kw[k]]
    IN  [ t |-> "Data",
          args |-> PyList([k \in 1..Len(args) |-> convert_value_for_xmlrpc(args[k])]),
          kwargs |-> PyDict([k \in DOMAIN kwargs |-> convert_value_for_xmlrpc(kwargs[k])]),
          timestamp |-> PyStr(Timestamp),
          response_code |-> IF response_code # PyNone THEN response_code ELSE PyInt(0),
          error |-> Lookup(kw, "error"),
          result |-> Lookup(kw, "result") ]

\* Data(*args, **kw): Data.__init__ bound to a call's arguments
NewData(args, kw) ==
    LET response_code == Lookup(kw, "response_code")
        error == Lookup(kw, "error")
        result == Lookup(kw, "result")
        kwargs == [k \in (DOMAIN kw) \ DataParams |-> kw[k]]
    IN  [ t |-> "Data",
          args |-> PyList([k \in 1..Len(args) |-> convert_value_for_xmlrpc(args[k])]),
          kwargs |-> PyDict([k \in DOMAIN kwargs |-> convert_value_for_xmlrpc(kwargs[k])]),
          timestamp |-> PyStr(Timestamp),
          response_code |-> IF response_code # PyNone THEN response_code ELSE PyInt(0),
          error |-> error,
          result |-> IF result # PyNone THEN convert_value_for_xmlrpc(result) ELSE result ]

\* Data.get_args
get_args(d) == PyTuple(d.args.l)

\* Data.get_kwargs
get_kwargs(d) == d.kwargs

\* get_result as it would be if it returned the result as it is stored
get_result_stored(d) == d.result

\* Data.get_result
get_result(d) == convert_value_from_xmlrpc(d.result)

DataFields == {"args", "kwargs", "timestamp", "response_code", "error", "result"}

\* bool(value): the truth value `if value:` tests
Truthy(v) ==
    CASE v.t = "NoneType" -> FALSE
      [] v.t = "bool" -> v.b
      [] v.t = "int" -> v.i # 0
      [] v.t = "float" -> ~(v.c = "nzero" \/ (v.c = "fin" /\ v.h = 0))
      [] v.t = "str" -> Len(v.s) > 0
      [] v.t \in {"list", "tuple"} -> Len(v.l) > 0
      [] v.t = "dict" -> DOMAIN v.d # {}
      [] OTHER -> TRUE

\* _get_dict_data as it would be if it kept the fields that are true, `if v`
get_dict_data_truthy(d) ==
    LET data == [k \in DataFields \cup {"_is_data_object"} |->
                    IF k = "_is_data_object" THEN PyBool(TRUE) ELSE d[k]]
    IN  PyDict([k \in {f \in DOMAIN data : Truthy(data[f])} |-> data[k]])

\* _get_dict_data as it would be if it kept the fields that are None
get_dict_data_unfiltered(d) ==
    PyDict([k \in DataFields \cup {"_is_data_object"} |->
               IF k = "_is_data_object" THEN PyBool(TRUE) ELSE d[k]])

\* Data._get_dict_data, which is also Data.__dict__
get_dict_data(d) ==
    LET data == [k \in DataFields \cup {"_is_data_object"} |->
                    IF k = "_is_data_object" THEN PyBool(TRUE) ELSE d[k]]
    IN  PyDict([k \in {f \in DOMAIN data : data[f] # PyNone} |-> data[k]])

\* type(value).__name__, as the interpreter's messages write it
TypeName(v) == IF v.t = "object" THEN v.cls ELSE v.t

\* the order in which _get_dict_data writes the keys
DataFieldOrder ==
    <<"args", "kwargs", "timestamp", "response_code", "error", "result", "_is_data_object">>

\* Data.keys: the keys of the view, as iterating them gives them
Data_keys(d) ==
    LET view == get_dict_data(d).d
        ks == SelectSeq(DataFieldOrder, LAMBDA f : f \in DOMAIN view)
    IN  PyList([k \in 1..Len(ks) |-> PyStr(ks[k])])

\* Data.values
Data_values(d) ==
    LET view == get_dict_data(d).d
        ks == SelectSeq(DataFieldOrder, LAMBDA f : f \in DOMAIN view)
    IN  PyList([k \in 1..Len(ks) |-> view[ks[k]]])

\* Data.items
Data_items(d) ==
    LET view == get_dict_data(d).d
        ks == SelectSeq(DataFieldOrder, LAMBDA f : f \in DOMAIN view)
    IN  PyList([k \in 1..Len(ks) |-> PyTuple(<<PyStr(ks[k]), view[ks[k]]>>)])

\* Data.__getitem__: the value, or the KeyError of the dict
Data_getitem(d, key) ==
    LET view == get_dict_data(d).d
    IN  IF key \in DOMAIN view
        THEN [raised |-> FALSE, value |-> view[key]]
        ELSE [raised |-> TRUE, msg |-> "'" \o key \o "'"]

----------------------------------------------------------------------------
(* The transport: what a value is after xmlrpc has written and read it.    *)
(* An instance travels as its __dict__, a tuple as an array (read back as  *)
(* a list); the other values arrive as they left.                          *)

RECURSIVE Marshal(_)
Marshal(v) ==
    CASE v.t = "Data" -> Marshal(get_dict_data(v))
      [] v.t = "object" -> PyDict(EmptyDict)
      [] v.t \in {"list", "tuple"} -> PyList([k \in 1..Len(v.l) |-> Marshal(v.l[k])])
      [] v.t = "dict" -> PyDict([k \in DOMAIN v.d |-> Marshal(v.d[k])])
      [] OTHER -> v

MarshalParams(params) == [k \in 1..Len(params) |-> Marshal(params[k])]

----------------------------------------------------------------------------
(* The registered handlers, server.MathFunctions, and calling them *)

\* the most items a worker's memory holds in one str or list (scaled down: on a
\* 64-bit build 'a' * 2**62 is a repeat that raises MemoryError)
MaxStrLen == 4096

Raised(msg) == [raised |-> TRUE, msg |-> msg]

Returned(v) == [raised |-> FALSE, value |-> v]

IsNumber(v) == v.t \in {"int", "bool"} \/ (v.t = "float" /\ v.c \in {"fin", "nzero"})

\* a number in hundredths
Hundredths(v) ==
    CASE v.t = "int" -> v.i * 100
      [] v.t = "bool" -> (IF v.b THEN 100 ELSE 0)
      [] OTHER -> v.h

\* y == 0
IsZero(v) ==
    CASE v.t = "int" -> v.i = 0
      [] v.t = "bool" -> ~v.b
      [] v.t = "float" -> v.c = "nzero" \/ (v.c = "fin" /\ v.h = 0)
      [] OTHER -> FALSE

\* the float num/den hundredths
MkFloat(num, den) ==
    LET n == IF den < 0 THEN -num ELSE num
        d == IF den < 0 THEN -den ELSE den
    IN  IF n % d = 0 THEN PyFloat(n \div d) ELSE PyOffGrid(n \div (d * 100))

Unsupported(op, x, y) ==
    Raised("unsupported operand type(s) for " \o op \o ": '" \o TypeName(x)
            \o "' and '" \o TypeName(y) \o "'")

RECURSIVE Repeat(_, _)
Repeat(s, n) == IF n <= 0 THEN "" ELSE s \o Repeat(s, n - 1)

\* seq * n for a str: MemoryError, whose message is empty, when it does not fit
RepeatStr(s, n) ==
    LET k == IF n.t = "bool" THEN (IF n.b THEN 1 ELSE 0) ELSE n.i
    IN  IF k > 0 /\ Len(s.s) * k > MaxStrLen THEN Raised("") ELSE Returned(PyStr(Repeat(s.s, k)))

RECURSIVE RepeatSeq(_, _)
RepeatSeq(l, n) == IF n <= 0 THEN <<>> ELSE l \o RepeatSeq(l, n - 1)

\* seq * n for a list
RepeatList(l, n) ==
    LET k == IF n.t = "bool" THEN (IF n.b THEN 1 ELSE 0) ELSE n.i
    IN  IF k > 0 /\ Len(l.l) * k > MaxStrLen THEN Raised("") ELSE Returned(PyList(RepeatSeq(l.l, k)))

\* x + y
PyAdd(x, y) ==
    IF IsNumber(x) /\ IsNumber(y)
    THEN Returned(IF x.t = "float" \/ y.t = "float"
                  THEN PyFloat(Hundredths(x) + Hundredths(y))
                  ELSE PyInt((Hundredths(x) + Hundredths(y)) \div 100))
    ELSE IF x.t = "str" /\ y.t = "str" THEN Returned(PyStr(x.s \o y.s))
    ELSE IF x.t = "list" /\ y.t = "list" THEN Returned(PyList(x.l \o y.l))
    ELSE IF x.t \in {"str", "list"}
    THEN Raised("can only concatenate " \o x.t \o " (not \"" \o TypeName(y) \o "\") to " \o x.t)
    ELSE Unsupported("+", x, y)

\* x - y
PySub(x, y) ==
    IF IsNumber(x) /\ IsNumber(y)
    THEN Returned(IF x.t = "float" \/ y.t = "float"
                  THEN PyFloat(Hundredths(x) - Hundredths(y))
                  ELSE PyInt((Hundredths(x) - Hundredths(y)) \div 100))
    ELSE Unsupported("-", x, y)

\* x * y
PyMul(x, y) ==
    IF IsNumber(x) /\ IsNumber(y)
    THEN Returned(IF x.t = "float" \/ y.t = "float"
                  THEN MkFloat(Hundredths(x) * Hundredths(y), 100)
                  ELSE PyInt((Hundredths(x) * Hundredths(y)) \div 10000))
    ELSE IF x.t = "str" /\ y.t \in {"int", "bool"} THEN RepeatStr(x, y)
    ELSE IF y.t = "str" /\ x.t \in {"int", "bool"} THEN RepeatStr(y, x)
    ELSE IF x.t = "list" /\ y.t \in {"int", "bool"} THEN RepeatList(x, y)
    ELSE IF y.t = "list" /\ x.t \in {"int", "bool"} THEN RepeatList(y, x)
    ELSE IF x.t \in {"str", "list"}
    THEN Raised("can't multiply sequence by non-int of type '" \o TypeName(y) \o "'")
    ELSE IF y.t \in {"str", "list"}
    THEN Raised("can't multiply sequence by non-int of type '" \o TypeName(x) \o "'")
    ELSE Unsupported("*", x, y)

\* x / y
PyDiv(x, y) ==
    IF IsNumber(x) /\ IsNumber(y)
    THEN Returned(MkFloat(Hundredths(x) * 100, Hundredths(y)))
    ELSE Unsupported("/", x, y)

\* MathFunctions.add
add(x, y) == PyAdd(x, y)

\* MathFunctions.subtract
subtract(x, y) == PySub(x, y)

\* MathFunctions.multiply
multiply(x, y) == PyMul(x, y)

\* MathFunctions.divide
divide(x, y) ==
    IF IsZero(y)
    THEN Raised("Cannot divide by zero")
    ELSE PyDiv(x, y)

\* the public methods of the registered instance, which system.listMethods lists
MathMethods == {"add", "subtract", "multiply", "divide"}

\* getattr(self.instance, method, None) on the MathFunctions instance: its four
\* methods, and what every instance has besides (of which __class__, __doc__,
\* __init__ and __setattr__ stand for the rest); None for any other name.
\* This is the lookup on the class, which is where getattr looks when the
\* instance holds no attribute of the name itself.
GetAttr(method) ==
    IF method \in MathMethods THEN [kind |-> "method", name |-> method]
    ELSE IF method = "__class__" THEN [kind |-> "class", name |-> "MathFunctions"]
    ELSE IF method = "__doc__" THEN [kind |-> "value", name |-> "str"]
    ELSE IF method = "__init__" THEN [kind |-> "init", name |-> "MathFunctions.__init__"]
    ELSE IF method = "__setattr__" THEN [kind |-> "setattr", name |-> "__setattr__"]
    ELSE [kind |-> "None", name |-> ""]

\* the parameters of the four methods, after self
MethodParams == <<"x", "y">>

ParamNames == {MethodParams[k] : k \in 1..Len(MethodParams)}

\* The failures of binding (*args, **kwargs) to (self, x, y).  The interpreter
\* reports the first offending keyword in the order the mapping holds them,
\* an order a mapping of the model does not have: every offending keyword is
\* a possible report.
BindErrors(name, args, kwargs) ==
    LET fn == "MathFunctions." \o name \o "()"
        given == {MethodParams[k] : k \in 1..(IF Len(args) < 2 THEN Len(args) ELSE 2)}
        kwbad == { fn \o " got an unexpected keyword argument '" \o k \o "'" :
                        k \in (DOMAIN kwargs) \ ParamNames }
                 \cup { fn \o " got multiple values for argument '" \o k \o "'" :
                        k \in (DOMAIN kwargs) \cap given }
        missing == ParamNames \ (given \cup DOMAIN kwargs)
    IN  IF kwbad # {} THEN kwbad
        ELSE IF Len(args) > 2
        THEN { fn \o " takes 3 positional arguments but " \o NatToStr(Len(args) + 1)
                  \o " were given" }
        ELSE IF missing = {"x", "y"}
        THEN { fn \o " missing 2 required positional arguments: 'x' and 'y'" }
        ELSE IF missing # {}
        THEN { fn \o " missing 1 required positional argument: '" \o k \o "'" : k \in missing }
        ELSE {}

\* the value bound to parameter number k
BoundArg(k, args, kwargs) == IF k <= Len(args) THEN args[k] ELSE kwargs[MethodParams[k]]

\* instance.__setattr__( *args, **kwargs ): object.__setattr__ bound to the
\* instance, a slot wrapper that takes a name and a value
SetAttr(args, kwargs) ==
    IF DOMAIN kwargs # {}
    THEN Raised("wrapper __setattr__() takes no keyword arguments")
    ELSE IF Len(args) # 2
    THEN Raised(" expected 2 arguments, got " \o NatToStr(Len(args)))
    ELSE IF args[1].t # "str"
    THEN Raised("attribute name must be string, not '" \o TypeName(args[1]) \o "'")
    ELSE IF args[1].s = "__class__"
    THEN Raised("__class__ must be set to a class, not '" \o TypeName(args[2]) \o "' object")
    ELSE Returned(PyNone)

\* the attributes the instance holds after func was called with args and this
\* was the outcome: a __setattr__ that returned has set one
AttrsAfter(attrs, func, args, out) ==
    IF func.kind = "setattr" /\ ~out.raised
    THEN (args[1].s :> args[2]) @@ attrs
    ELSE attrs

\* func( *args, **kwargs ): the outcomes of calling what the name resolved to
CallFunc(func, args, kwargs) ==
    IF func.kind = "value" THEN { Raised("'" \o func.name \o "' object is not callable") }
    ELSE IF func.kind = "class"
    THEN (IF Len(args) > 0 \/ DOMAIN kwargs # {}
          THEN { Raised(func.name \o "() takes no arguments") }
          ELSE { Returned(PyObject(func.name)) })
    ELSE IF func.kind = "setattr" THEN { SetAttr(args, kwargs) }
    ELSE IF func.kind = "init"
    THEN (IF Len(args) > 0 \/ DOMAIN kwargs # {}
          THEN { Raised(func.name \o "() takes exactly one argument (the instance to initialize)") }
          ELSE { Returned(PyNone) })
    ELSE LET errs == BindErrors(func.name, args, kwargs)
             x == BoundArg(1, args, kwargs)
             y == BoundArg(2, args, kwargs)
         IN  IF errs # {} THEN { Raised(m) : m \in errs }
             ELSE { CASE func.name = "add" -> add(x, y)
                      [] func.name = "subtract" -> subtract(x, y)
                      [] func.name = "multiply" -> multiply(x, y)
                      [] OTHER -> divide(x, y) }

----------------------------------------------------------------------------
(* The client call adapter, client.DataServerProxy._Method.__call__ *)

IsSystemMethod(name) == StartsWith(name, "system.")

\* isinstance(value, Data)
IsData(v) == v.t = "Data"

\* __call__ as it would be if an envelope anywhere among the arguments made it
\* pass them as they are
MethodCallAnyData(name, A, K) ==
    IF IsSystemMethod(name) THEN [params |-> A, wrapped |-> FALSE]
    ELSE IF \E j \in 1..Len(A) : IsData(A[j]) THEN [params |-> A, wrapped |-> FALSE]
    ELSE [params |-> <<NewData(A, K)>>, wrapped |-> TRUE]

\* proxy.name( *A, **K ): what __call__ hands to send, and whether it wrapped
MethodCall(name, A, K) ==
    IF IsSystemMethod(name) THEN [params |-> A, wrapped |-> FALSE]
    ELSE IF Len(A) > 0 /\ IsData(A[1]) THEN [params |-> A, wrapped |-> FALSE]
    ELSE [params |-> <<NewData(A, K)>>, wrapped |-> TRUE]

\* dict.get(key, default)
DictGet(d, k, default) == IF k \in DOMAIN d.d THEN d.d[k] ELSE default

\* isinstance(v, dict) and v.get('_is_data_object', False)
IsDataObject(v) == v.t = "dict" /\ Truthy(DictGet(v, "_is_data_object", PyBool(FALSE)))

\* f"{value}" of what a response's error and response_code hold
Format(v) ==
    CASE v.t = "str" -> v.s
      [] v.t = "NoneType" -> "None"
      [] v.t \in {"int", "bool", "float"} -> FormatValue(v)
      [] OTHER -> "<" \o TypeName(v) \o ">"

\* XMLRPCClient._return_result
ReturnResult(result) ==
    IF IsDataObject(result)
    THEN LET response_code == DictGet(result, "response_code", PyStr("unknown"))
             actual_result == DictGet(result, "result", PyNone)
             error == DictGet(result, "error", PyNone)
         IN  IF Truthy(error)
             THEN Raised("Error: " \o Format(error) \o " (Code: " \o Format(response_code) \o ")")
             ELSE Returned(convert_value_from_xmlrpc(actual_result))
    ELSE Returned(convert_value_from_xmlrpc(result))

----------------------------------------------------------------------------
(* The server dispatch interceptor, server.ThreadedXMLRPCServer._dispatch *)

\* what system.listMethods answers: the public methods of the instance and
\* the introspection functions, sorted
ListedMethods ==
    <<"add", "divide", "multiply", "subtract",
      "system.listMethods", "system.methodHelp", "system.methodSignature">>

\* list_public_methods(instance) keeps the names whose attribute is callable:
\* a name the instance holds a value under is not
Listed(attrs) == SelectSeq(ListedMethods, LAMBDA n : n \notin DOMAIN attrs)

\* super()._dispatch(method, params) for a name under system.: the built-in
\* dispatch of the transport
SystemDispatch(attrs, method, params) ==
    IF method = "system.listMethods"
    THEN (IF Len(params) = 0
          THEN Returned(PyList([k \in 1..Len(Listed(attrs)) |-> PyStr(Listed(attrs)[k])]))
          ELSE Raised("SimpleXMLRPCDispatcher.system_listMethods() takes 1 positional argument but "
                        \o NatToStr(Len(params) + 1) \o " were given"))
    ELSE IF method = "system.methodSignature"
    THEN (IF Len(params) = 1
          THEN Returned(PyStr("signatures not supported"))
          ELSE IF Len(params) = 0
          THEN Raised("SimpleXMLRPCDispatcher.system_methodSignature() missing 1 required positional argument: 'method_name'")
          ELSE Raised("SimpleXMLRPCDispatcher.system_methodSignature() takes 2 positional arguments but "
                        \o NatToStr(Len(params) + 1) \o " were given"))
    ELSE Raised("method \"" \o method \o "\" is not supported")

\* self.funcs.get(method), then getattr(self.instance, method, None): funcs
\* holds only the introspection functions, whose names are under system.
\* An attribute the instance holds itself comes before the class's method of
\* the name; the values a request can put there are not callable, and a None
\* there is a name that does not resolve.
ResolveFunc(attrs, method) ==
    IF method \in DOMAIN attrs
    THEN (IF attrs[method] = PyNone THEN [kind |-> "None", name |-> ""]
          ELSE [kind |-> "value", name |-> TypeName(attrs[method])])
    ELSE GetAttr(method)

NotSupported(method) == "Method \"" \o method \o "\" is not supported!"

\* iterating a dict gives its keys, in the order they were inserted; a mapping
\* of the model holds them in no order, and one order stands for it
KeysOf(d) ==
    LET n == Cardinality(DOMAIN d)
    IN  IF n = 0 THEN <<>>
        ELSE LET f == CHOOSE g \in [1..n -> DOMAIN d] : \A a, b \in 1..n : a # b => g[a] # g[b]
             IN  [k \in 1..n |-> PyStr(f[k])]

\* for arg in data_args: the items of what an envelope-shaped parameter holds as args
Iterate(v) ==
    CASE v.t \in {"list", "tuple"} -> [ok |-> TRUE, items |-> v.l]
      [] v.t = "str" -> [ok |-> TRUE, items |-> [k \in 1..Len(v.s) |-> PyStr(CharAt(v.s, k))]]
      [] v.t = "dict" -> [ok |-> TRUE, items |-> KeysOf(v.d)]
      [] OTHER -> [ok |-> FALSE, msg |-> "'" \o TypeName(v) \o "' object is not iterable"]

\* the loop's turn as it would be if it assigned kwargs where it updates them
UnpackParamAssigning(param, args, kwargs) ==
    IF IsDataObject(param)
    THEN LET data_args == DictGet(param, "args", PyTuple(<<>>))
             data_kwargs == DictGet(param, "kwargs", PyDict(EmptyDict))
             it == Iterate(data_args)
         IN  IF ~it.ok THEN [ok |-> FALSE, msg |-> it.msg]
             ELSE IF data_kwargs.t # "dict"
             THEN [ok |-> FALSE,
                   msg |-> "'" \o TypeName(data_kwargs) \o "' object has no attribute 'items'"]
             ELSE [ok |-> TRUE,
                   args |-> args \o [k \in 1..Len(it.items) |-> convert_value_from_xmlrpc(it.items[k])],
                   kwargs |-> [k \in DOMAIN data_kwargs.d |-> convert_value_from_xmlrpc(data_kwargs.d[k])]]
    ELSE [ok |-> TRUE, args |-> Append(args, convert_value_from_xmlrpc(param)), kwargs |-> kwargs]

\* the turn of the loop as it would be if a keyword already held kept its value
UnpackParamKeepingFirst(param, args, kwargs) ==
    IF IsDataObject(param)
    THEN LET data_args == DictGet(param, "args", PyTuple(<<>>))
             data_kwargs == DictGet(param, "kwargs", PyDict(EmptyDict))
             it == Iterate(data_args)
         IN  IF ~it.ok THEN [ok |-> FALSE, msg |-> it.msg]
             ELSE IF data_kwargs.t # "dict"
             THEN [ok |-> FALSE,
                   msg |-> "'" \o TypeName(data_kwargs) \o "' object has no attribute 'items'"]
             ELSE LET converted_args ==
                          [k \in 1..Len(it.items) |-> convert_value_from_xmlrpc(it.items[k])]
                      converted_kwargs ==
                          [k \in DOMAIN data_kwargs.d |-> convert_value_from_xmlrpc(data_kwargs.d[k])]
                  IN  [ok |-> TRUE,
                       args |-> args \o converted_args,
                       kwargs |-> [k \in DOMAIN kwargs \cup DOMAIN converted_kwargs |->
                                      IF k \in DOMAIN kwargs
                                      THEN kwargs[k] ELSE converted_kwargs[k]]]
    ELSE [ok |-> TRUE, args |-> Append(args, convert_value_from_xmlrpc(param)), kwargs |-> kwargs]

\* One turn of the loop over params (server.py:53-68): the accumulated args and
\* kwargs after param, or the failure raised on the way
UnpackParam(param, args, kwargs) ==
    IF IsDataObject(param)
    THEN LET data_args == DictGet(param, "args", PyTuple(<<>>))
             data_kwargs == DictGet(param, "kwargs", PyDict(EmptyDict))
             it == Iterate(data_args)
         IN  IF ~it.ok THEN [ok |-> FALSE, msg |-> it.msg]
             ELSE IF data_kwargs.t # "dict"
             THEN [ok |-> FALSE,
                   msg |-> "'" \o TypeName(data_kwargs) \o "' object has no attribute 'items'"]
             ELSE LET converted_args ==
                          [k \in 1..Len(it.items) |-> convert_value_from_xmlrpc(it.items[k])]
                      converted_kwargs ==
                          [k \in DOMAIN data_kwargs.d |-> convert_value_from_xmlrpc(data_kwargs.d[k])]
                  IN  [ok |-> TRUE,
                       args |-> args \o converted_args,
                       kwargs |-> [k \in DOMAIN kwargs \cup DOMAIN converted_kwargs |->
                                      IF k \in DOMAIN converted_kwargs
                                      THEN converted_kwargs[k] ELSE kwargs[k]]]
    ELSE [ok |-> TRUE, args |-> Append(args, convert_value_from_xmlrpc(param)), kwargs |-> kwargs]

----------------------------------------------------------------------------
(* Calls: a client's call, its request on the wire, the worker's dispatch  *)
(* of it, the response on the wire, and what the client makes of it        *)

CallIds == {"c1", "c2"}

NoFunc == [kind |-> "None", name |-> ""]

NoOutcome == [raised |-> FALSE, value |-> PyNone]

IdleCall ==
    [ pc |-> "idle",        \* idle, resolve, unpack, invoke, respond, reply, done
      via |-> "",           \* proxy, call_math_function, foreign
      name |-> "",          \* the method name
      A |-> <<>>,           \* the caller's positional arguments
      K |-> EmptyDict,      \* the caller's keyword arguments
      sent |-> <<>>,        \* what the adapter handed to send
      wrapped |-> FALSE,    \* whether the adapter built an envelope
      params |-> <<>>,      \* the parameter list _dispatch receives
      i |-> 0,              \* the parameter the unpack loop is at
      args |-> <<>>,        \* the worker's local args
      kwargs |-> EmptyDict, \* the worker's local kwargs
      func |-> NoFunc,      \* what the name resolved to
      invoked |-> <<>>,     \* the calls made of func, each with its arguments and outcome
      status |-> 0,         \* the response_code of the response to build
      result |-> PyNone,
      error |-> PyNone,
      env |-> PyNone,       \* the Data object _dispatch built
      ret |-> PyNone,       \* what _dispatch returned
      delegated |-> FALSE,  \* whether the built-in dispatch was called
      resp |-> PyNone,      \* what the client's send returned
      obs |-> NoOutcome ]   \* what the caller observes

Names ==
    { "add", "subtract", "multiply", "divide", "doesNotExist", "__class__", "__doc__", "__init__",
      "__setattr__",
      "system.listMethods", "system.methodSignature", "system.bogus" }

MaxArgs == 2

\* envelopes a caller builds by hand and passes as arguments
ManualData ==
    { NewData(<<PyInt(10)>>, EmptyDict),
      NewData(<<>>, "y" :> PyInt(5)),
      NewData(<<>>, ("x" :> PyInt(10)) @@ ("y" :> PyInt(0))) }

ArgValues ==
    { PyInt(10), PyInt(5), PyFloat(250), PyStr("ab"), PyStr("__INT__5") } \cup ManualData

\* a repeat count that no memory holds, as 2**62 is on a 64-bit build
HugeRepeat == <<PyStr("a"), PyInt(1073741824)>>

ArgLists == UNION { [1..n -> ArgValues] : n \in 0..MaxArgs } \cup {HugeRepeat}

KwargChoices ==
    { EmptyDict,
      ("x" :> PyInt(10)) @@ ("y" :> PyInt(5)),
      ("x" :> PyInt(10)) @@ ("y" :> PyInt(0)),
      ("x" :> PyStr("ab")) @@ ("y" :> PyBool(TRUE)),
      "y" :> PyInt(5),
      "z" :> PyInt(1),
      ("x" :> PyInt(10)) @@ ("y" :> PyInt(5)) @@ ("result" :> PyInt(7)),
      ("x" :> PyInt(10)) @@ ("error" :> PyStr("boom")),
      ("x" :> PyInt(10)) @@ ("y" :> PyInt(5)) @@ ("response_code" :> PyInt(7)) }

\* DataServerProxy.__getattr__: the method names the proxy makes callable
ProxyNames == { name \in Names : ~StartsWith(name, "_") }

\* proxy.name(*A, **K) through DataServerProxy: the adapter, then the transport
ProxyCall(c) ==
    /\ call[c].pc = "idle"
    /\ \E name \in ProxyNames, A \in ArgLists, K \in KwargChoices :
          LET m == MethodCall(name, A, K)
          IN  call' = [call EXCEPT ![c] =
                  [@ EXCEPT !.pc = "resolve", !.via = "proxy", !.name = name, !.A = A, !.K = K,
                            !.sent = m.params, !.wrapped = m.wrapped,
                            !.params = MarshalParams(m.params)]]
    /\ UNCHANGED <<cv, box, instance>>

MathArgs == { PyInt(10), PyInt(5), PyInt(0), PyFloat(250) }

\* XMLRPCClient.call_math_function(operation, x, y): getattr(self.proxy, operation)(x=x, y=y)
CallMathFunction(c) ==
    /\ call[c].pc = "idle"
    /\ \E operation \in MathMethods \cup {"doesNotExist"}, x \in MathArgs, y \in MathArgs :
          LET K == ("x" :> x) @@ ("y" :> y)
              m == MethodCall(operation, <<>>, K)
          IN  call' = [call EXCEPT ![c] =
                  [@ EXCEPT !.pc = "resolve", !.via = "call_math_function", !.name = operation,
                            !.A = <<>>, !.K = K, !.sent = m.params, !.wrapped = m.wrapped,
                            !.params = MarshalParams(m.params)]]
    /\ UNCHANGED <<cv, box, instance>>

\* an envelope as it is on the wire
WireData(args, kw) == Marshal(NewData(args, kw))

\* parameter lists of a client that does not go through the adapter
ForeignParams ==
    { <<>>,
      <<PyStr("add"), PyInt(5)>>,
      <<PyInt(10), WireData(<<PyInt(5)>>, EmptyDict)>>,
      <<PyInt(10), WireData(<<>>, "y" :> PyInt(5))>>,
      <<WireData(<<>>, "y" :> PyInt(5)), PyStr("__INT__10")>>,
      <<PyDict(("_is_data_object" :> PyBool(TRUE)) @@ ("kwargs" :> PyList(<<PyInt(1)>>)))>>,
      <<PyDict(("_is_data_object" :> PyBool(TRUE)) @@ ("args" :> PyInt(5)))>>,
      <<PyDict("_is_data_object" :> PyBool(TRUE)), PyInt(10), PyInt(5)>>,
      <<PyDict(("_is_data_object" :> PyBool(FALSE)) @@ ("args" :> PyList(<<PyInt(1)>>))), PyInt(5)>> }

\* a request of another XML-RPC client: _dispatch(method, params) with any parameter list
ForeignCall(c) ==
    /\ call[c].pc = "idle"
    /\ \E name \in Names, params \in ForeignParams :
          call' = [call EXCEPT ![c] =
              [@ EXCEPT !.pc = "resolve", !.via = "foreign", !.name = name, !.params = params]]
    /\ UNCHANGED <<cv, box, instance>>

\* the lookup as it would be if a resolved name went on to the call at once
DispatchResolveThenInvoke(c) ==
    LET k == call[c]
        sys == SystemDispatch(instance, k.name, k.params)
        func == ResolveFunc(instance, k.name)
    IN  /\ k.pc = "resolve"
        /\ call' = [call EXCEPT ![c] =
              IF IsSystemMethod(k.name)
              THEN (IF sys.raised
                    THEN [k EXCEPT !.pc = "respond", !.delegated = TRUE, !.status = 400,
                                   !.error = PyStr(sys.msg)]
                    ELSE [k EXCEPT !.pc = "reply", !.delegated = TRUE, !.ret = sys.value,
                                   !.resp = Marshal(sys.value)])
              ELSE IF func.kind = "None"
              THEN [k EXCEPT !.pc = "respond", !.status = 404,
                             !.error = PyStr(NotSupported(k.name))]
              ELSE [k EXCEPT !.pc = "invoke", !.func = func, !.i = 1]]
        /\ UNCHANGED <<cv, box, instance>>

\* server.py:33-47: the introspection bypass and the lookup of the handler
DispatchResolve(c) ==
    LET k == call[c]
        sys == SystemDispatch(instance, k.name, k.params)
        func == ResolveFunc(instance, k.name)
    IN  /\ k.pc = "resolve"
        /\ call' = [call EXCEPT ![c] =
              IF IsSystemMethod(k.name)
              THEN (IF sys.raised
                    THEN [k EXCEPT !.pc = "respond", !.delegated = TRUE, !.status = 400,
                                   !.error = PyStr(sys.msg)]
                    ELSE [k EXCEPT !.pc = "reply", !.delegated = TRUE, !.ret = sys.value,
                                   !.resp = Marshal(sys.value)])
              ELSE IF func.kind = "None"
              THEN [k EXCEPT !.pc = "respond", !.status = 404,
                             !.error = PyStr(NotSupported(k.name))]
              ELSE [k EXCEPT !.pc = IF Len(k.params) = 0 THEN "invoke" ELSE "unpack",
                             !.func = func, !.i = 1]]
        /\ UNCHANGED <<cv, box, instance>>

\* server.py:53-68: one parameter of the loop
DispatchUnpack(c) ==
    LET k == call[c]
    IN  /\ k.pc = "unpack"
        /\ \E r \in { UnpackParam(k.params[k.i], k.args, k.kwargs) } :
              call' = [call EXCEPT ![c] =
                  IF r.ok
                  THEN [k EXCEPT !.args = r.args, !.kwargs = r.kwargs, !.i = k.i + 1,
                                 !.pc = IF k.i = Len(k.params) THEN "invoke" ELSE "unpack"]
                  ELSE [k EXCEPT !.pc = "respond", !.status = 400, !.error = PyStr(r.msg)]]
        /\ UNCHANGED <<cv, box, instance>>

\* server.py:70-76: func(*args, **kwargs)
DispatchInvoke(c) ==
    LET k == call[c]
    IN  /\ k.pc = "invoke"
        /\ \E out \in CallFunc(k.func, k.args, k.kwargs) :
              /\ call' = [call EXCEPT ![c] =
                    [k EXCEPT !.pc = "respond",
                              !.invoked = Append(@, [func |-> k.func, args |-> k.args,
                                                     kwargs |-> k.kwargs, out |-> out]),
                              !.status = IF out.raised THEN 400 ELSE 200,
                              !.result = IF out.raised THEN PyNone ELSE out.value,
                              !.error = IF out.raised THEN PyStr(out.msg) ELSE PyNone]]
              /\ instance' = AttrsAfter(instance, k.func, k.args, out)
        /\ UNCHANGED <<cv, box>>

\* the except clause as it would be if it answered 500
ResponseKwServerError(status, result, error) ==
    IF status = 200
    THEN ("response_code" :> PyInt(200)) @@ ("result" :> result)
    ELSE ("response_code" :> PyInt(500)) @@ ("error" :> error)

\* the keyword arguments as they would be if a failure carried a result too
ResponseKwWithBoth(status, result, error) ==
    IF status = 200
    THEN ("response_code" :> PyInt(200)) @@ ("result" :> result)
    ELSE ("response_code" :> PyInt(status)) @@ ("error" :> error) @@ ("result" :> error)

\* the keyword arguments of the Data(...) call at each return of _dispatch
ResponseKw(status, result, error) ==
    IF status = 200
    THEN ("response_code" :> PyInt(200)) @@ ("result" :> result)
    ELSE ("response_code" :> PyInt(status)) @@ ("error" :> error)

\* server.py:47, 80, 85: return Data(...).__dict__
DispatchRespond(c) ==
    LET k == call[c]
    IN  /\ k.pc = "respond"
        /\ \E env \in { NewData(<<>>, ResponseKw(k.status, k.result, k.error)) } :
              call' = [call EXCEPT ![c] =
                  [k EXCEPT !.pc = "reply", !.env = env, !.ret = get_dict_data(env),
                            !.resp = Marshal(get_dict_data(env))]]
        /\ UNCHANGED <<cv, box, instance>>

\* The caller receives the response.  A call through call_math_function
\* (client.py:149-163) applies _return_result and returns None when that
\* raises; a caller of the proxy is handed the response and may apply
\* _return_result to it, which is what obs records.
ClientReturn(c) ==
    LET k == call[c]
        r == ReturnResult(k.resp)
    IN  /\ k.pc = "reply"
        /\ call' = [call EXCEPT ![c] =
              [k EXCEPT !.pc = "done",
                        !.obs = IF k.via = "call_math_function" /\ r.raised
                                THEN Returned(PyNone) ELSE r]]
        /\ UNCHANGED <<cv, box, instance>>

IdleCodec == [v |-> PyNone, cur |-> PyNone, ops |-> <<>>]

IdleBox == [args |-> <<>>, kw |-> EmptyDict, d |-> PyNone, got |-> EmptyDict]

Init ==
    /\ cv = IdleCodec
    /\ call = [c \in CallIds |-> IdleCall]
    /\ box = IdleBox
    /\ instance = EmptyDict

\* one call at a time
Next ==
    \E c \in {"c1"} :
        \/ ProxyCall(c)
        \/ CallMathFunction(c)
        \/ ForeignCall(c)
        \/ DispatchResolve(c)
        \/ DispatchUnpack(c)
        \/ DispatchInvoke(c)
        \/ DispatchRespond(c)
        \/ ClientReturn(c)

Spec == Init /\ [][Next]_vars

----------------------------------------------------------------------------
(* Two workers: ThreadingMixIn starts a thread per request, and the        *)
(* threads' steps interleave                                               *)

\* the requests the two clients choose from
ConcRequests ==
    { [name |-> "add", params |-> <<WireData(<<PyInt(10)>>, "y" :> PyInt(5))>>],
      [name |-> "add", params |-> <<PyStr("add"), PyInt(5)>>],
      [name |-> "multiply", params |-> <<PyInt(10), WireData(<<PyInt(5)>>, EmptyDict)>>],
      [name |-> "divide", params |-> <<WireData(<<>>, ("x" :> PyInt(10)) @@ ("y" :> PyInt(0)))>>],
      [name |-> "subtract", params |-> <<PyDict(("_is_data_object" :> PyBool(TRUE)) @@ ("args" :> PyInt(5)))>>],
      [name |-> "doesNotExist", params |-> <<PyInt(10)>>],
      [name |-> "system.listMethods", params |-> <<>>],
      [name |-> "__setattr__", params |-> <<PyStr("add"), PyInt(5)>>] }

\* a request arrives and a worker is started for it
ConcRequest(c) ==
    /\ call[c].pc = "idle"
    /\ \E r \in ConcRequests :
          call' = [call EXCEPT ![c] =
              [@ EXCEPT !.pc = "resolve", !.via = "foreign", !.name = r.name, !.params = r.params]]
    /\ UNCHANGED <<cv, box, instance>>

ConcNext ==
    \E c \in CallIds :
        \/ ConcRequest(c)
        \/ DispatchResolve(c)
        \/ DispatchUnpack(c)
        \/ DispatchInvoke(c)
        \/ DispatchRespond(c)
        \/ ClientReturn(c)

ConcSpec == Init /\ [][ConcNext]_vars

\* the steps of the worker of call c, from the first line of _dispatch to its
\* return
WorkerStep(c) ==
    DispatchResolve(c) \/ DispatchUnpack(c) \/ DispatchInvoke(c) \/ DispatchRespond(c)

\* A worker is a thread of its own and nothing in _dispatch waits for another
\* thread: a worker that can take a step does take it.
FairConcSpec == ConcSpec /\ \A c \in CallIds : WF_vars(WorkerStep(c))

\* the loop over params from its first turn to its last
RECURSIVE UnpackAll(_, _, _)
UnpackAll(params, args, kwargs) ==
    IF Len(params) = 0 THEN [ok |-> TRUE, args |-> args, kwargs |-> kwargs]
    ELSE LET r == UnpackParam(Head(params), args, kwargs)
         IN  IF r.ok THEN UnpackAll(Tail(params), r.args, r.kwargs) ELSE r

\* Data(response_code=..., ...).__dict__
Response(status, result, error) ==
    get_dict_data(NewData(<<>>, ResponseKw(status, result, error)))

\* _dispatch(method, params) run from its first line to its return with no
\* other call beside it, on an instance that holds attrs: what it may return
DispatchAlone(attrs, method, params) ==
    IF IsSystemMethod(method)
    THEN LET sys == SystemDispatch(attrs, method, params)
         IN  IF sys.raised THEN { Response(400, PyNone, PyStr(sys.msg)) } ELSE { sys.value }
    ELSE LET func == ResolveFunc(attrs, method)
             u == UnpackAll(params, <<>>, EmptyDict)
         IN  IF func.kind = "None"
             THEN { Response(404, PyNone, PyStr(NotSupported(method))) }
             ELSE IF ~u.ok THEN { Response(400, PyNone, PyStr(u.msg)) }
             ELSE { IF out.raised THEN Response(400, PyNone, PyStr(out.msg))
                    ELSE Response(200, out.value, PyNone) :
                        out \in CallFunc(func, u.args, u.kwargs) }

----------------------------------------------------------------------------
(* The codec on its own: a value, and the conversions applied to it *)

MaxSeqLen == 2

MaxOps == 2

\* strings, among them markers, malformed markers and near-markers
CodecStrings ==
    { "", "hello", "123", "__INT__42", "__INT__-17", "__INT__0", "__INT__",
      "__INT__not_a_number", "__FLOAT__", "__FLOAT__3.14", "__FLOAT__-2.5",
      "__FLOAT__not_a_number", "__FLOAT__nan", "__FLOAT__inf", "__FLOAT__-inf",
      "__INT", "INT__42", "__FLOAT", "__INVALID__42", "x__INT__42",
      "__INT__ 7", "__INT__+7", "__INT__1_0", "__INT__4.2", "__INT____INT__1",
      "__FLOAT__5", "__FLOAT__-Infinity", "__FLOAT__0.125", "__int__42",
      "__INT__True", "__FLOAT__-0.0" }

CodecScalars ==
    { PyInt(n) : n \in {0, 1, 42, -17, 1000000} }
        \cup { PyFloat(h) : h \in {0, 314, -250, 5, 100000} }
        \cup { PyInf, PyNegInf, PyNaN, PyNegZero }
        \cup { PyBool(TRUE), PyBool(FALSE), PyNone }
        \cup { PyStr(s) : s \in CodecStrings }

\* the elements of the sequences and mappings the codec is tried on
CodecElements ==
    { PyInt(1), PyFloat(250), PyStr("hello"), PyStr("__INT__42"), PyBool(TRUE),
      PyList(<<PyInt(2), PyBool(FALSE)>>), PyTuple(<<PyInt(3)>>),
      PyDict([k \in {"inner"} |-> PyFloat(314)]) }

CodecSeqs == UNION { [1..n -> CodecElements] : n \in 0..MaxSeqLen }

CodecDicts == UNION { [ks -> CodecElements] : ks \in {{}, {"a"}, {"a", "__INT__1"}} }

CodecValues ==
    CodecScalars
        \cup { PyList(l) : l \in CodecSeqs }
        \cup { PyTuple(l) : l \in CodecSeqs }
        \cup { PyDict(d) : d \in CodecDicts }

CodecInit ==
    /\ cv \in { [v |-> v, cur |-> v, ops |-> <<>>] : v \in CodecValues }
    /\ call = [c \in CallIds |-> IdleCall]
    /\ box = IdleBox
    /\ instance = EmptyDict

\* cur = convert_value_for_xmlrpc(cur)
CodecEncode ==
    /\ Len(cv.ops) < MaxOps
    /\ cv' = [cv EXCEPT !.cur = convert_value_for_xmlrpc(cv.cur), !.ops = Append(@, "encode")]
    /\ UNCHANGED <<call, box, instance>>

\* cur = convert_value_from_xmlrpc(cur)
CodecDecode ==
    /\ Len(cv.ops) < MaxOps
    /\ cv' = [cv EXCEPT !.cur = convert_value_from_xmlrpc(cv.cur), !.ops = Append(@, "decode")]
    /\ UNCHANGED <<call, box, instance>>

CodecNext == CodecEncode \/ CodecDecode

CodecSpec == CodecInit /\ [][CodecNext]_vars

----------------------------------------------------------------------------
(* The envelope on its own: its construction, and what its getters give *)

\* the positional arguments tried
EnvArgs == CodecSeqs

\* the keyword arguments tried: names of the caller's, and the three the
\* envelope has itself
EnvKwargs ==
    { EmptyDict,
      "x" :> PyInt(1),
      ("x" :> PyFloat(250)) @@ ("y" :> PyList(<<PyInt(2), PyBool(FALSE)>>)),
      "result" :> PyInt(7),
      "result" :> PyList(<<PyInt(1), PyTuple(<<PyFloat(250)>>)>>),
      ("result" :> PyStr("__INT__5")) @@ ("x" :> PyTuple(<<PyInt(3)>>)),
      ("response_code" :> PyInt(200)) @@ ("result" :> PyDict("inner" :> PyFloat(314))),
      ("response_code" :> PyInt(400)) @@ ("error" :> PyStr("boom")) }

EnvInit ==
    /\ box \in { [args |-> a, kw |-> k, d |-> PyNone, got |-> EmptyDict] :
                    a \in EnvArgs, k \in EnvKwargs }
    /\ cv = IdleCodec
    /\ call = [c \in CallIds |-> IdleCall]
    /\ instance = EmptyDict

\* d = Data( *args, **kw )
EnvConstruct ==
    /\ box.d = PyNone
    /\ box' = [box EXCEPT !.d = NewData(box.args, box.kw)]
    /\ UNCHANGED <<cv, call, instance>>

\* a getter is called on the envelope, and what it gives is kept under its name
EnvGet(op, value) ==
    /\ box.d # PyNone
    /\ op \notin DOMAIN box.got
    /\ box' = [box EXCEPT !.got = (op :> value) @@ box.got]
    /\ UNCHANGED <<cv, call, instance>>

\* d.get_args()
EnvGetArgs == EnvGet("get_args", get_args(box.d))

\* d.get_kwargs()
EnvGetKwargs == EnvGet("get_kwargs", get_kwargs(box.d))

\* d.get_result()
EnvGetResult == EnvGet("get_result", get_result(box.d))

\* d.__dict__
EnvDict == EnvGet("__dict__", get_dict_data(box.d))

EnvNext == EnvConstruct \/ EnvGetArgs \/ EnvGetKwargs \/ EnvGetResult \/ EnvDict

EnvSpec == EnvInit /\ [][EnvNext]_vars

\* the envelope is looked at through one of its dictionary views, and what
\* the view shows is kept in place of what was kept before
EnvLook(op, shown) ==
    /\ box.d # PyNone
    /\ box' = [box EXCEPT !.got = (op :> shown)]
    /\ UNCHANGED <<cv, call, instance>>

\* d._get_dict_data()
ViewDictData == EnvLook("_get_dict_data", get_dict_data(box.d))

\* d.keys()
ViewKeys == EnvLook("keys", Data_keys(box.d))

\* d.values()
ViewValues == EnvLook("values", Data_values(box.d))

\* d.items()
ViewItems == EnvLook("items", Data_items(box.d))

\* the keys d[key] is tried with
ViewKeyChoices == DataFields \cup {"_is_data_object", "x"}

\* d[key]
ViewGetItem ==
    \E key \in ViewKeyChoices :
        EnvLook("__getitem__", [key |-> key, out |-> Data_getitem(box.d, key)])

ViewNext ==
    EnvConstruct \/ EnvDict \/ ViewDictData \/ ViewKeys \/ ViewValues \/ ViewItems \/ ViewGetItem

ViewSpec == EnvInit /\ [][ViewNext]_vars

----------------------------------------------------------------------------
(* The codec's round trip *)

\* the kinds of scalar the codec supports
ScalarKinds == {"int", "float", "bool", "str"}

\* the value has been encoded, and what that gave decoded
RoundTripped == cv.ops = <<"encode", "decode">>

\* C1: for every supported scalar v (an integer, a float, a boolean, a string,
\* the strings that begin with __INT__ or __FLOAT__ among them),
\* convert_value_from_xmlrpc(convert_value_for_xmlrpc(v)) equals v and is of
\* the kind of v.
C1_RoundTripEveryScalar ==
    (RoundTripped /\ cv.v.t \in ScalarKinds)
        => (cv.cur = cv.v /\ TypeOf(cv.cur) = TypeOf(cv.v))

\* the string "__INT__42" has made the round trip and is the integer 42
C1_MarkerStringLost ==
    RoundTripped /\ cv.v = PyStr("__INT__42") /\ cv.cur = PyInt(42)

\* the value has been decoded, and nothing else done to it
Decoded == cv.ops = <<"decode">>

\* strings with a tag and a remainder that is no number, with a truncated
\* tag, or with a tag that is not at the start
MalformedMarkers ==
    { "__INT__", "__INT__not_a_number", "__INT__4.2", "__FLOAT__", "__FLOAT__not_a_number",
      "__INT", "__FLOAT", "INT__42", "x__INT__42", "__INVALID__42", "__int__42" }

\* C11: convert_value_from_xmlrpc raises for no string: a string beginning
\* with __INT__ or __FLOAT__ whose remainder does not parse (the empty
\* remainder too) is returned unchanged, and so is every string that does not
\* begin with one of the two tags.
C11_MalformedPassesThrough ==
    (Decoded /\ cv.v.t = "str")
        => /\ cv.cur.t \in {"str", "int", "float"}
           /\ cv.v.s \in MalformedMarkers => cv.cur = cv.v
           /\ (~StartsWith(cv.v.s, INT_MARKER) /\ ~StartsWith(cv.v.s, FLOAT_MARKER))
                 => cv.cur = cv.v
           /\ (StartsWith(cv.v.s, INT_MARKER) /\ ~ParseInt(DropPrefix(cv.v.s, 7)).ok)
                 => cv.cur = cv.v
           /\ (StartsWith(cv.v.s, FLOAT_MARKER) /\ ~ParseFloat(DropPrefix(cv.v.s, 9)).ok)
                 => cv.cur = cv.v

\* "__INT__not_a_number" has been decoded and is unchanged
C11_Witness ==
    Decoded /\ cv.v = PyStr("__INT__not_a_number") /\ cv.cur = PyStr("__INT__not_a_number")

\* the value has been encoded, and nothing else done to it
Encoded == cv.ops = <<"encode">>

\* a is b with every element encoded, and a sequence in it of the kind of
\* the one in b, at every depth
RECURSIVE SameKindEncoded(_, _)
SameKindEncoded(a, b) ==
    IF b.t \in {"list", "tuple"}
    THEN /\ a.t = b.t
         /\ Len(a.l) = Len(b.l)
         /\ \A k \in 1..Len(b.l) : SameKindEncoded(a.l[k], b.l[k])
    ELSE IF b.t = "dict"
    THEN /\ a.t = "dict"
         /\ DOMAIN a.d = DOMAIN b.d
         /\ \A k \in DOMAIN b.d : SameKindEncoded(a.d[k], b.d[k])
    ELSE a = convert_value_for_xmlrpc(b)

\* a is b with every element encoded, and a list where b has a list or a
\* tuple, at every depth
RECURSIVE ListEncoded(_, _)
ListEncoded(a, b) ==
    IF b.t \in {"list", "tuple"}
    THEN /\ a.t = "list"
         /\ Len(a.l) = Len(b.l)
         /\ \A k \in 1..Len(b.l) : ListEncoded(a.l[k], b.l[k])
    ELSE IF b.t = "dict"
    THEN /\ a.t = "dict"
         /\ DOMAIN a.d = DOMAIN b.d
         /\ \A k \in DOMAIN b.d : ListEncoded(a.d[k], b.d[k])
    ELSE /\ a.t \notin {"list", "tuple", "dict"}
         /\ a = convert_value_for_xmlrpc(b)

\* C12: convert_value_for_xmlrpc of an ordered sequence returns a sequence of
\* the kind of its input (a list stays a list, a tuple stays a tuple) with
\* each element encoded, at every depth.
C12_EncodeKeepsSequenceKind ==
    (Encoded /\ cv.v.t \in {"list", "tuple"}) => SameKindEncoded(cv.cur, cv.v)

\* C12, amended: convert_value_for_xmlrpc of an ordered sequence, list or
\* tuple, returns a list of the same length with each element encoded, at
\* every depth: a tuple becomes a list.
C12_EncodeGivesList ==
    (Encoded /\ cv.v.t \in {"list", "tuple"}) => ListEncoded(cv.cur, cv.v)

\* a tuple holding a list and a tuple has been encoded: lists throughout
C12_Witness ==
    /\ Encoded
    /\ cv.v = PyTuple(<<PyList(<<PyInt(2), PyBool(FALSE)>>), PyTuple(<<PyInt(3)>>)>>)
    /\ cv.cur = PyList(<<PyList(<<PyStr("__INT__2"), PyBool(FALSE)>>), PyList(<<PyStr("__INT__3")>>)>>)

\* C13: convert_value_for_xmlrpc returns every string unchanged, the strings
\* that already look like a marker too, and adds a tag only to an integer
\* and to a float.
C13_StringsUntagged ==
    Encoded
        => /\ cv.v.t = "str" => cv.cur = cv.v
           /\ cv.v.t = "int" => cv.cur = PyStr("__INT__" \o IntToStr(cv.v.i))
           /\ cv.v.t = "float" => (cv.cur.t = "str" /\ StartsWith(cv.cur.s, "__FLOAT__"))
           /\ (cv.v.t \in ScalarKinds \cup {"NoneType"} /\ cv.cur # cv.v)
                 => cv.v.t \in {"int", "float"}

\* the string "__INT__42" has been encoded and is unchanged
C13_Witness ==
    Encoded /\ cv.v = PyStr("__INT__42") /\ cv.cur = PyStr("__INT__42")

\* wherever b holds a boolean, at any depth of its sequences and mappings,
\* a holds that boolean
RECURSIVE BoolsKept(_, _)
BoolsKept(a, b) ==
    IF b.t = "bool" THEN a = b
    ELSE IF b.t \in {"list", "tuple"}
    THEN /\ a.t \in {"list", "tuple"}
         /\ Len(a.l) = Len(b.l)
         /\ \A k \in 1..Len(b.l) : BoolsKept(a.l[k], b.l[k])
    ELSE IF b.t = "dict"
    THEN /\ a.t = "dict"
         /\ DOMAIN a.d = DOMAIN b.d
         /\ \A k \in DOMAIN b.d : BoolsKept(a.d[k], b.d[k])
    ELSE TRUE

\* C14: booleans are never tagged: convert_value_for_xmlrpc and
\* convert_value_from_xmlrpc both return True and False unchanged, booleans
\* still, at the top and at any depth inside lists and mappings.
C14_BooleansUntouched ==
    (Encoded \/ Decoded) => BoolsKept(cv.cur, cv.v)

\* a list holding True and a list that holds False has been encoded
C14_Witness ==
    /\ Encoded
    /\ cv.v = PyList(<<PyBool(TRUE), PyList(<<PyInt(2), PyBool(FALSE)>>)>>)
    /\ cv.cur = PyList(<<PyBool(TRUE), PyList(<<PyStr("__INT__2"), PyBool(FALSE)>>)>>)

\* a has the shape of b, with every element decoded: a list where b has a
\* list, a tuple where b has a tuple, of the same length; a mapping of the
\* keys of b where b has a mapping; the decoded value where b has any other
RECURSIVE SameShapeDecoded(_, _)
SameShapeDecoded(a, b) ==
    IF b.t \in {"list", "tuple"}
    THEN /\ a.t = b.t
         /\ Len(a.l) = Len(b.l)
         /\ \A k \in 1..Len(b.l) : SameShapeDecoded(a.l[k], b.l[k])
    ELSE IF b.t = "dict"
    THEN /\ a.t = "dict"
         /\ DOMAIN a.d = DOMAIN b.d
         /\ \A k \in DOMAIN b.d : SameShapeDecoded(a.d[k], b.d[k])
    ELSE /\ a.t \notin {"list", "tuple", "dict"}
         /\ a = (IF b.t = "str" THEN DecodeStr(b) ELSE b)

\* C21: convert_value_from_xmlrpc of nested sequences and mappings returns a
\* structure of the same shape: a list for a list and a tuple for a tuple, of
\* the same length and with each element decoded; a mapping for a mapping,
\* with the same keys, none of them decoded, and each value decoded.
C21_DecodeKeepsShape ==
    Decoded => SameShapeDecoded(cv.cur, cv.v)

\* a tuple that holds a marker string and a tuple has been decoded: it is a
\* tuple of the int and a tuple
C21_Witness ==
    /\ Decoded
    /\ cv.v = PyTuple(<<PyStr("__INT__42"), PyTuple(<<PyInt(3)>>)>>)
    /\ cv.cur = PyTuple(<<PyInt(42), PyTuple(<<PyInt(3)>>)>>)


\* the conversion to the wire was applied twice to the value started from
EncodedTwice == cv.ops = <<"encode", "encode">>

\* C25: converting to the wire a value that was already converted changes
\* nothing: encode(encode(v)) = encode(v) for every value v of integers,
\* floats, booleans, strings, None, lists, tuples and mappings.
C25_EncodeIdempotent ==
    EncodedTwice => cv.cur = convert_value_for_xmlrpc(cv.v)

\* a tuple that holds an integer was converted twice: it is the list with
\* the tagged integer that one conversion gives, and not the tuple
C25_Witness ==
    /\ EncodedTwice
    /\ cv.v.t = "tuple"
    /\ \E k \in 1..Len(cv.v.l) : cv.v.l[k].t = "int"
    /\ cv.cur.t = "list"
    /\ \E k \in 1..Len(cv.cur.l) :
          cv.cur.l[k].t = "str" /\ StartsWith(cv.cur.l[k].s, INT_MARKER)
    /\ cv.cur = convert_value_for_xmlrpc(cv.v)

----------------------------------------------------------------------------
(* The envelope's construction: what the claims speak of *)

\* no int and no float is found in v, however deep in its lists, tuples and
\* dicts
RECURSIVE NoRawNumber(_)
NoRawNumber(v) ==
    CASE v.t \in {"int", "float"} -> FALSE
      [] v.t \in {"list", "tuple"} -> \A k \in 1..Len(v.l) : NoRawNumber(v.l[k])
      [] v.t = "dict" -> \A k \in DOMAIN v.d : NoRawNumber(v.d[k])
      [] OTHER -> TRUE

Constructed == box.d # PyNone

\* the keywords that are the caller's, and not the envelope's own
CallerKeywords == (DOMAIN box.kw) \ DataParams

\* C15: once an envelope is constructed, its args are the encoded positional
\* values, its kwargs the encoded keyword values and its result the encoded
\* result when one was given, so none of the three holds an int or a float
\* at any depth; get_result() gives the decoded stored result and get_args()
\* gives the stored positional values as a tuple.
C15_EnvelopeEncodes ==
    Constructed =>
        /\ box.d.args = PyList([k \in 1..Len(box.args) |->
                                  convert_value_for_xmlrpc(box.args[k])])
        /\ box.d.kwargs = PyDict([k \in CallerKeywords |->
                                    convert_value_for_xmlrpc(box.kw[k])])
        /\ box.d.result = IF "result" \in DOMAIN box.kw
                          THEN convert_value_for_xmlrpc(box.kw["result"])
                          ELSE PyNone
        /\ NoRawNumber(box.d.args)
        /\ NoRawNumber(box.d.kwargs)
        /\ NoRawNumber(box.d.result)
        /\ "get_result" \in DOMAIN box.got =>
              box.got["get_result"] = convert_value_from_xmlrpc(box.d.result)
        /\ "get_args" \in DOMAIN box.got =>
              box.got["get_args"] = PyTuple(box.d.args.l)

\* an envelope was made of an int and a list, of a tuple keyword and of a list
\* result that holds a float in a tuple, and both getters were called
C15_Witness ==
    /\ Constructed
    /\ box.args = <<PyInt(1), PyList(<<PyInt(2), PyBool(FALSE)>>)>>
    /\ box.d.args = PyList(<<PyStr("__INT__1"),
                             PyList(<<PyStr("__INT__2"), PyBool(FALSE)>>)>>)
    /\ \E k \in DOMAIN box.d.kwargs.d : box.d.kwargs.d[k].t = "list"
    /\ {"get_result", "get_args"} \subseteq DOMAIN box.got
    /\ box.got["get_result"].t = "int"
    /\ box.got["get_args"].t = "tuple"

----------------------------------------------------------------------------
(* The dispatch of a call: what the claims speak of *)

\* _dispatch has returned
Answered(k) == k.pc \in {"reply", "done"}

\* the handler was called and raised
HandlerRaised(k) == Len(k.invoked) = 1 /\ k.invoked[1].out.raised

\* the handler was called and returned
HandlerReturned(k) == Len(k.invoked) = 1 /\ ~k.invoked[1].out.raised

\* the name resolved, and the loop over params raised before any call
UnpackFailed(k) == k.func.kind # "None" /\ k.invoked = <<>> /\ k.pc \in {"respond", "reply", "done"}

\* the message of the failure
FailureMessage(k) == IF HandlerRaised(k) THEN k.invoked[1].out.msg ELSE k.error.s

\* the view of a response envelope with this status and this error, and no result
IsErrorResponse(r, status, msg) ==
    /\ IsDataObject(r)
    /\ DictGet(r, "response_code", PyNone) = PyInt(status)
    /\ DictGet(r, "error", PyNone) = PyStr(msg)
    /\ "result" \notin DOMAIN r.d

\* C2: when a handler raises during dispatch, whatever the message, and also
\* when unpacking the parameters or binding them to the handler raises,
\* _dispatch returns a response envelope with response_code 400 whose error
\* is the failure's message; what the transport is handed is that envelope,
\* never a fault.
C2_FailureIs400 ==
    \A c \in CallIds :
        LET k == call[c]
        IN  (Answered(k) /\ ~k.delegated /\ (HandlerRaised(k) \/ UnpackFailed(k)))
                => /\ IsData(k.env)
                   /\ k.ret = get_dict_data(k.env)
                   /\ IsErrorResponse(k.ret, 400, FailureMessage(k))
                   /\ k.resp = k.ret

\* a handler's failure with an empty message has been answered
C2_Witness ==
    LET k == call["c1"]
    IN  /\ k.pc = "done" /\ k.name = "multiply"
        /\ HandlerRaised(k) /\ FailureMessage(k) = ""
        /\ IsErrorResponse(k.ret, 400, "")

\* C3: for every name outside system. that is not a registered handler,
\* _dispatch returns a response envelope with response_code 404 and an error
\* naming the method, and calls nothing.
C3_UnregisteredIs404 ==
    \A c \in CallIds :
        LET k == call[c]
        IN  (Answered(k) /\ ~IsSystemMethod(k.name) /\ k.name \notin MathMethods)
                => /\ IsErrorResponse(k.ret, 404, NotSupported(k.name))
                   /\ k.invoked = <<>>

\* a request for __class__ with no parameters has called the class and been
\* answered 200 with the instance
C3_ClassCalled ==
    LET k == call["c1"]
    IN  /\ k.pc = "done" /\ k.name = "__class__" /\ k.params = <<>>
        /\ Len(k.invoked) = 1
        /\ k.invoked[1].out = Returned(PyObject("MathFunctions"))
        /\ DictGet(k.ret, "response_code", PyNone) = PyInt(200)

\* C4: when the handler returns r, _dispatch returns a response envelope with
\* response_code 200 whose result is convert_value_for_xmlrpc(r).
C4_ReturnIs200 ==
    \A c \in CallIds :
        LET k == call[c]
            r == k.invoked[1].out.value
        IN  (Answered(k) /\ HandlerReturned(k))
                => /\ IsData(k.env)
                   /\ k.env.response_code = PyInt(200)
                   /\ k.env.result = convert_value_for_xmlrpc(r)
                   /\ k.env.error = PyNone
                   /\ k.ret = get_dict_data(k.env)
                   /\ DictGet(k.ret, "response_code", PyNone) = PyInt(200)
                   /\ "error" \notin DOMAIN k.ret.d
                   /\ (r # PyNone => DictGet(k.ret, "result", PyNone) = convert_value_for_xmlrpc(r))

\* add with the keyword values x = "__INT__10" and y = "__INT__5" has answered
\* 200 with the result "__INT__15"
C4_Witness ==
    LET k == call["c1"]
    IN  /\ k.pc = "done" /\ k.name = "add"
        /\ k.params = <<WireData(<<>>, ("x" :> PyInt(10)) @@ ("y" :> PyInt(5)))>>
        /\ HandlerReturned(k) /\ k.invoked[1].out.value = PyInt(15)
        /\ DictGet(k.ret, "response_code", PyNone) = PyInt(200)
        /\ DictGet(k.ret, "result", PyNone) = PyStr("__INT__15")

\* the adapter's third case: a name outside system., and no envelope first in A
Wraps(name, A) == ~IsSystemMethod(name) /\ (Len(A) = 0 \/ ~IsData(A[1]))

\* a call through the adapter has been made
Sent(k) == k.pc # "idle" /\ k.via \in {"proxy", "call_math_function"}

\* C5: for a call of a name outside system. with positional arguments A whose
\* first is no envelope (or none) and keyword arguments K of any names, the
\* adapter sends one parameter, a request envelope whose args are the encoded
\* elements of A in order and whose kwargs map every key of K to its encoded
\* value.
C5_WrapsAllOfAK ==
    \A c \in CallIds :
        LET k == call[c]
        IN  (Sent(k) /\ Wraps(k.name, k.A))
                => /\ Len(k.sent) = 1
                   /\ IsData(k.sent[1])
                   /\ k.sent[1].args = PyList([j \in 1..Len(k.A) |-> convert_value_for_xmlrpc(k.A[j])])
                   /\ k.sent[1].kwargs = PyDict([key \in DOMAIN k.K |-> convert_value_for_xmlrpc(k.K[key])])

\* add(x=10, y=5, result=7) has been sent: the envelope's kwargs lack result,
\* which is the envelope's own
C5_ResultKeywordTaken ==
    LET k == call["c1"]
    IN  /\ Sent(k) /\ k.name = "add" /\ k.A = <<>>
        /\ k.K = ("x" :> PyInt(10)) @@ ("y" :> PyInt(5)) @@ ("result" :> PyInt(7))
        /\ k.sent[1].kwargs = PyDict(("x" :> PyStr("__INT__10")) @@ ("y" :> PyStr("__INT__5")))
        /\ k.sent[1].result = PyStr("__INT__7")

\* C6: an envelope the adapter builds as a request carries no result, no
\* error and the status 0, and an envelope _dispatch builds as a response
\* carries no positional and no keyword arguments.
C6_RolesNeverMix ==
    \A c \in CallIds :
        LET k == call[c]
        IN  /\ (Sent(k) /\ k.wrapped)
                => /\ k.sent[1].result = PyNone
                   /\ k.sent[1].error = PyNone
                   /\ k.sent[1].response_code = PyInt(0)
            /\ IsData(k.env)
                => /\ k.env.args = PyList(<<>>)
                   /\ k.env.kwargs = PyDict(EmptyDict)

\* add(x=10, error="boom") has been sent: the request carries the error
C6_RequestWithError ==
    LET k == call["c1"]
    IN  /\ Sent(k) /\ k.wrapped /\ k.name = "add" /\ k.A = <<>>
        /\ k.K = ("x" :> PyInt(10)) @@ ("error" :> PyStr("boom"))
        /\ k.sent[1].error = PyStr("boom")
        /\ DictGet(k.params[1], "error", PyNone) = PyStr("boom")

\* C7: for every call of a name under system., _dispatch hands the call to
\* the built-in dispatch and what that returns or raises passes through
\* unchanged: no envelope is built for such a call.
C7_SystemBypassesEnvelope ==
    \A c \in CallIds :
        LET k == call[c]
        IN  (Answered(k) /\ IsSystemMethod(k.name))
                => /\ k.delegated
                   /\ ~IsData(k.env)
                   /\ ~IsDataObject(k.ret)
                   /\ (~SystemDispatch(instance, k.name, k.params).raised
                          => k.ret = SystemDispatch(instance, k.name, k.params).value)

\* system.bogus has been answered with a 400 envelope
C7_RaiseBecomesEnvelope ==
    LET k == call["c1"]
    IN  /\ k.pc = "done" /\ k.name = "system.bogus" /\ k.params = <<>>
        /\ k.delegated
        /\ IsErrorResponse(k.ret, 400, "method \"system.bogus\" is not supported")

\* the positional values a parameter supplies
ArgsOfParam(p) ==
    IF IsDataObject(p)
    THEN LET items == Iterate(DictGet(p, "args", PyTuple(<<>>))).items
         IN  [j \in 1..Len(items) |-> convert_value_from_xmlrpc(items[j])]
    ELSE <<convert_value_from_xmlrpc(p)>>

\* the keyword values a parameter supplies
KwargsOfParam(p) ==
    IF IsDataObject(p)
    THEN LET d == DictGet(p, "kwargs", PyDict(EmptyDict)).d
         IN  [key \in DOMAIN d |-> convert_value_from_xmlrpc(d[key])]
    ELSE EmptyDict

RECURSIVE Flatten(_)
Flatten(seqs) == IF Len(seqs) = 0 THEN <<>> ELSE Head(seqs) \o Flatten(Tail(seqs))

\* args and kwargs are what params supply: the positional values of the
\* parameters one after the other, and every keyword some envelope supplies
\* with a value an envelope supplies for it
EffectiveOf(params, args, kwargs) ==
    /\ args = Flatten([j \in 1..Len(params) |-> ArgsOfParam(params[j])])
    /\ DOMAIN kwargs = UNION { DOMAIN KwargsOfParam(params[j]) : j \in 1..Len(params) }
    /\ \A key \in DOMAIN kwargs :
          \E j \in 1..Len(params) :
              key \in DOMAIN KwargsOfParam(params[j]) /\ kwargs[key] = KwargsOfParam(params[j])[key]

\* C8: once the parameters are unpacked, the effective positional sequence is
\* the concatenation, in the order of the parameters, of the decoded args of
\* each envelope-shaped parameter and the decoded value of each other
\* parameter, and the effective keyword mapping is the union of the decoded
\* kwargs of the envelope-shaped parameters; the handler is called once, with
\* both.
C8_UnpackMerges ==
    \A c \in CallIds :
        LET k == call[c]
        IN  /\ k.pc = "invoke" => EffectiveOf(k.params, k.args, k.kwargs)
            /\ Len(k.invoked) <= 1
            /\ \A j \in 1..Len(k.invoked) :
                  EffectiveOf(k.params, k.invoked[j].args, k.invoked[j].kwargs)

\* an envelope supplying only the positional 10 and one supplying only the
\* keyword y = 5 have made one call of add, which returned 15
C8_Witness ==
    LET k == call["c1"]
    IN  /\ k.pc = "done" /\ k.name = "add"
        /\ k.params = <<WireData(<<PyInt(10)>>, EmptyDict), WireData(<<>>, "y" :> PyInt(5))>>
        /\ k.invoked = <<[func |-> GetAttr("add"), args |-> <<PyInt(10)>>,
                          kwargs |-> "y" :> PyInt(5), out |-> Returned(PyInt(15))]>>

\* C9: for every response envelope of the server with response_code 400 or
\* 404, _return_result raises a failure whose message carries the status and
\* the error; no such response yields a returned value.
C9_ErrorResponseRaises ==
    \A c \in CallIds :
        LET k == call[c]
        IN  (k.pc = "done" /\ k.via # "call_math_function" /\ IsData(k.env)
                /\ k.env.response_code \in {PyInt(400), PyInt(404)})
                => /\ k.obs.raised
                   /\ k.obs.msg = "Error: " \o k.env.error.s \o " (Code: "
                                      \o IntToStr(k.env.response_code.i) \o ")"

\* the 400 response with the empty error has been taken for a result
C9_EmptyErrorReturned ==
    LET k == call["c1"]
    IN  /\ k.pc = "done" /\ k.via = "proxy" /\ k.name = "multiply" /\ k.A = HugeRepeat
        /\ IsErrorResponse(k.resp, 400, "")
        /\ k.obs = Returned(PyNone)

\* decoding what encoding it gave restores the value
Restorable(v) == convert_value_from_xmlrpc(Marshal(convert_value_for_xmlrpc(v))) = v

\* C10: a call name(A, K) through the adapter, the transport and _dispatch
\* calls the handler with positional values equal to A and keyword values
\* equal to K, and the caller observes the handler's return value.  (Stated
\* for the arguments the codec restores.)
C10_EndToEnd ==
    \A c \in CallIds :
        LET k == call[c]
        IN  (k.pc = "done" /\ Sent(k) /\ k.wrapped /\ k.name \in MathMethods
                /\ (\A j \in 1..Len(k.A) : Restorable(k.A[j]))
                /\ (\A key \in DOMAIN k.K : Restorable(k.K[key])))
                => /\ Len(k.invoked) = 1
                   /\ k.invoked[1].args = k.A
                   /\ k.invoked[1].kwargs = k.K
                   /\ (~k.invoked[1].out.raised /\ Restorable(k.invoked[1].out.value)
                          => k.obs = Returned(k.invoked[1].out.value))

\* add(x=10, y=5, result=7) has called the handler without result, and 15 is
\* what the caller observes
C10_KeywordNeverArrives ==
    LET k == call["c1"]
    IN  /\ k.pc = "done" /\ k.name = "add" /\ k.A = <<>>
        /\ k.K = ("x" :> PyInt(10)) @@ ("y" :> PyInt(5)) @@ ("result" :> PyInt(7))
        /\ Len(k.invoked) = 1
        /\ k.invoked[1].kwargs = ("x" :> PyInt(10)) @@ ("y" :> PyInt(5))
        /\ k.obs = Returned(PyInt(15))

----------------------------------------------------------------------------
(* The response on the wire *)

\* _dispatch built a response envelope for the call and returned it
Responded(k) == Answered(k) /\ IsData(k.env)

\* C16 as the specification words it: the mapping a response crosses the wire
\* as has response_code, one of result and error, and the flag, and no other
\* key.
C16_ResponseKeysAsWorded ==
    \A c \in CallIds :
        LET k == call[c]
        IN  Responded(k) =>
                \E f \in {"result", "error"} :
                    DOMAIN k.resp.d = {"response_code", "_is_data_object", f}

\* the keys every response has on the wire
ResponseKeys == {"response_code", "args", "kwargs", "timestamp", "_is_data_object"}

\* C16: the mapping a response crosses the wire as has response_code, an
\* empty args, an empty kwargs, the timestamp and the flag, and besides them
\* result when the handler returned a value that is not None, error when the
\* call failed, and neither when the handler returned None.
C16_ResponseWireMapping ==
    \A c \in CallIds :
        LET k == call[c]
            r == k.resp.d
        IN  Responded(k) =>
                /\ k.resp.t = "dict"
                /\ DOMAIN r = ResponseKeys \cup
                      (IF HandlerReturned(k)
                       THEN (IF k.invoked[1].out.value # PyNone THEN {"result"} ELSE {})
                       ELSE {"error"})
                /\ r["response_code"] = PyInt(k.status)
                /\ k.status \in {200, 400, 404}
                /\ (k.status = 200) = HandlerReturned(k)
                /\ r["args"] = PyList(<<>>)
                /\ r["kwargs"] = PyDict(EmptyDict)
                /\ r["timestamp"] = PyStr(Timestamp)
                /\ r["_is_data_object"] = PyBool(TRUE)

\* add has answered 200, and its response crossed the wire with the result and
\* with args, kwargs and timestamp too
C16_Witness ==
    LET k == call["c1"]
    IN  /\ k.pc = "done" /\ k.name = "add" /\ k.via = "proxy"
        /\ HandlerReturned(k)
        /\ DOMAIN k.resp.d = ResponseKeys \cup {"result"}
        /\ k.resp.d["result"] = PyStr("__INT__15")

----------------------------------------------------------------------------
(* The adapter's two bypasses *)

\* the name is under system., or the first positional argument is an envelope
Bypasses(name, A) == IsSystemMethod(name) \/ (Len(A) > 0 /\ IsData(A[1]))

\* C17: the adapter hands the positional arguments A to send as they are,
\* building no envelope and adding nothing, exactly when the name is under
\* system. or A is non-empty and its first element is an envelope; in every
\* other case it builds one envelope of A and K and sends that alone.
C17_ForwardsInTwoCases ==
    \A c \in CallIds :
        LET k == call[c]
        IN  Sent(k) =>
                /\ Bypasses(k.name, k.A) => (k.sent = k.A /\ ~k.wrapped)
                /\ ~Bypasses(k.name, k.A) =>
                      /\ k.wrapped
                      /\ k.sent = <<NewData(k.A, k.K)>>
                      /\ k.sent # k.A

\* add was called with an envelope first and an int second, and with
\* keywords: the adapter sent the two arguments as they were, and the call
\* went on to the server
C17_Witness ==
    LET k == call["c1"]
    IN  /\ k.via = "proxy" /\ k.name = "add" /\ k.pc = "done"
        /\ Len(k.A) = 2 /\ IsData(k.A[1]) /\ ~IsData(k.A[2])
        /\ k.K # EmptyDict
        /\ ~k.wrapped /\ k.sent = k.A

----------------------------------------------------------------------------
(* Calls dispatched at the same time *)

\* C18: under every interleaving of two calls dispatched at the same time,
\* what _dispatch returns for each call is what it returns for that call when
\* it runs alone on the server as it was started; and no step of a dispatch
\* changes what the registered instance holds.
C18_SameAsAlone ==
    /\ \A c \in CallIds :
          LET k == call[c]
          IN  Answered(k) => k.ret \in DispatchAlone(EmptyDict, k.name, k.params)
    /\ instance = EmptyDict

\* one call was __setattr__("add", 5) and answered 200; the other was add with
\* 10 and y = 5, and answered 400 because add is now the int 5
C18_RegistryWritten ==
    LET k == call["c1"]
        o == call["c2"]
    IN  /\ k.pc = "done" /\ k.name = "__setattr__"
        /\ DictGet(k.ret, "response_code", PyNone) = PyInt(200)
        /\ "add" \in DOMAIN instance /\ instance["add"] = PyInt(5)
        /\ o.pc = "done" /\ o.name = "add"
        /\ o.params = <<WireData(<<PyInt(10)>>, "y" :> PyInt(5))>>
        /\ IsErrorResponse(o.ret, 400, "'int' object is not callable")

----------------------------------------------------------------------------
(* The course of one dispatch *)

\* the place of a state in the course of a call
Rank(pc) ==
    CASE pc = "idle" -> 0
      [] pc = "resolve" -> 1
      [] pc = "unpack" -> 2
      [] pc = "invoke" -> 3
      [] pc = "respond" -> 4
      [] pc = "reply" -> 5
      [] OTHER -> 6

\* a call of a name outside system. has arrived
Inbound(k) == k.pc # "idle" /\ ~IsSystemMethod(k.name)

\* one step of call c keeps the order RESOLVE, UNPACK, INVOKE, RESPOND: RESOLVE
\* is left for RESPOND only when the name did not resolve, INVOKE is left for
\* RESPOND only, RESPOND is left once and with the response envelope built,
\* and the envelope built stays the one it is
InOrder(c) ==
    LET k == call[c]
        n == call'[c]
    IN  (Inbound(k) /\ n # k) =>
            /\ Rank(n.pc) >= Rank(k.pc)
            /\ k.pc = "resolve" =>
                  /\ n.pc \in {"unpack", "invoke", "respond"}
                  /\ (n.pc = "respond") = (ResolveFunc(instance, k.name).kind = "None")
            /\ k.pc = "unpack" => n.pc \in {"unpack", "invoke", "respond"}
            /\ k.pc = "invoke" => (n.pc = "respond" /\ Len(n.invoked) = 1)
            /\ k.pc = "respond" => (n.pc = "reply" /\ k.env = PyNone /\ IsData(n.env))
            /\ k.pc \in {"reply", "done"} => (n.env = k.env /\ n.ret = k.ret)
            /\ Len(n.invoked) >= Len(k.invoked)
            /\ (n.pc # "respond" /\ n.pc # k.pc) => n.invoked = k.invoked

\* the handler was called at most once, and if it was, every parameter had
\* been unpacked: it was called with what the whole loop over params gives
InvokedAfterUnpack(k) ==
    /\ Len(k.invoked) <= 1
    /\ Len(k.invoked) = 1 =>
          LET u == UnpackAll(k.params, <<>>, EmptyDict)
          IN  /\ u.ok
              /\ k.invoked[1].args = u.args
              /\ k.invoked[1].kwargs = u.kwargs
              /\ Len(k.params) > 0 => k.i = Len(k.params) + 1
    /\ k.pc \in {"resolve", "unpack", "invoke"} => (k.invoked = <<>> /\ k.env = PyNone)

\* C19: every call of a name outside system. that arrives is answered: it
\* reaches RESPOND and one response envelope is built for it; its states
\* follow one another only in the order RESOLVE, UNPACK, INVOKE, RESPOND, with
\* RESOLVE going straight to RESPOND when the name does not resolve; the
\* handler is called at most once, and only with all parameters unpacked.
C19_RunsToOneResponse ==
    /\ [][\A c \in CallIds : InOrder(c)]_vars
    /\ [](\A c \in CallIds : Inbound(call[c]) => InvokedAfterUnpack(call[c]))
    /\ \A c \in CallIds :
          (call[c].pc = "resolve" /\ ~IsSystemMethod(call[c].name))
              ~> (call[c].pc = "reply" /\ IsDataObject(call[c].ret))

\* add was called with 10 and an envelope that holds 5: both parameters were
\* unpacked, the handler was called once with (10, 5), and the call is answered
C19_Witness ==
    LET k == call["c2"]
    IN  /\ k.pc = "reply" /\ k.name = "multiply"
        /\ Len(k.params) = 2 /\ k.i = 3
        /\ Len(k.invoked) = 1 /\ k.invoked[1].args = <<PyInt(10), PyInt(5)>>
        /\ IsData(k.env) /\ k.env.result = PyStr("__INT__50")

----------------------------------------------------------------------------
(* The status codes *)

\* C20: every envelope built carries a status code among 0, 200, 400 and 404:
\* a request envelope the adapter builds carries 0, and a response envelope
\* _dispatch builds carries 200, 400 or 404.
C20_StatusCodes ==
    \A c \in CallIds :
        LET k == call[c]
        IN  /\ (Sent(k) /\ k.wrapped) => k.sent[1].response_code = PyInt(0)
            /\ IsData(k.env) => k.env.response_code \in {PyInt(200), PyInt(400), PyInt(404)}

\* add was called with x = 10, y = 5 and response_code = 7: the request
\* envelope carries 7, on the wire too, and the call is answered 200 with 15
C20_RequestCarriesSeven ==
    LET k == call["c1"]
    IN  /\ k.pc = "done" /\ k.via = "proxy" /\ k.name = "add" /\ k.A = <<>>
        /\ k.K = ("x" :> PyInt(10)) @@ ("y" :> PyInt(5)) @@ ("response_code" :> PyInt(7))
        /\ k.wrapped /\ k.sent[1].response_code = PyInt(7)
        /\ DictGet(k.params[1], "response_code", PyNone) = PyInt(7)
        /\ k.env.response_code = PyInt(200) /\ k.env.result = PyStr("__INT__15")

----------------------------------------------------------------------------
(* The envelope's dictionary views *)

\* the fields of the envelope that hold a value that is not None
Populated(d) == { f \in DataFields : d[f] # PyNone }

\* what the view holds under key: the field's value, True under the flag
Held(d, key) == IF key = "_is_data_object" THEN PyBool(TRUE) ELSE d[key]

\* what was shown through the view op is the populated fields and the flag,
\* and nothing else
ShowsPopulated(d, op, shown) ==
    LET pop == Populated(d) \cup {"_is_data_object"}
    IN  CASE op \in {"__dict__", "_get_dict_data"} ->
                /\ shown.t = "dict"
                /\ DOMAIN shown.d = pop
                /\ \A f \in pop : shown.d[f] = Held(d, f) /\ shown.d[f] # PyNone
          [] op = "keys" ->
                /\ Len(shown.l) = Cardinality(pop)
                /\ { shown.l[k] : k \in 1..Len(shown.l) } = { PyStr(f) : f \in pop }
          [] op = "values" ->
                /\ Len(shown.l) = Cardinality(pop)
                /\ { shown.l[k] : k \in 1..Len(shown.l) } = { Held(d, f) : f \in pop }
                /\ \A k \in 1..Len(shown.l) : shown.l[k] # PyNone
          [] op = "items" ->
                /\ Len(shown.l) = Cardinality(pop)
                /\ { shown.l[k] : k \in 1..Len(shown.l) }
                      = { PyTuple(<<PyStr(f), Held(d, f)>>) : f \in pop }
          [] op = "__getitem__" ->
                IF shown.key \in pop
                THEN shown.out = [raised |-> FALSE, value |-> Held(d, shown.key)]
                ELSE shown.out.raised
          [] OTHER -> TRUE

\* C22: whichever way an envelope's view is taken (_get_dict_data, __dict__,
\* keys, values, items, __getitem__), it holds exactly those of args, kwargs,
\* timestamp, response_code, error and result whose value is not None, each
\* with its value, and _is_data_object with True; a field that holds None is
\* never in it.
C22_ViewHoldsPopulated ==
    Constructed => \A op \in DOMAIN box.got : ShowsPopulated(box.d, op, box.got[op])

\* an envelope with response_code 400 and an error was built: d["result"]
\* raised KeyError, and __dict__ has the error and no result
C22_Witness ==
    /\ Constructed
    /\ box.d.error = PyStr("boom") /\ box.d.result = PyNone
    /\ DOMAIN box.got = {"__getitem__", "__dict__"}
    /\ box.got["__getitem__"].key = "result" /\ box.got["__getitem__"].out.raised
    /\ DOMAIN box.got["__dict__"].d =
          {"args", "kwargs", "timestamp", "response_code", "error", "_is_data_object"}

----------------------------------------------------------------------------
(* The order of the parameters *)

\* the parameters of params that are envelope-shaped and supply keyword key
Suppliers(params, key) ==
    { j \in 1..Len(params) : key \in DOMAIN KwargsOfParam(params[j]) }

\* the last of a non-empty set of positions
Last(js) == CHOOSE j \in js : \A i \in js : i <= j

\* C23: the handler is called with, for every keyword, the value of the last
\* envelope-shaped parameter that supplies it, and with the positional values
\* of the parameters in the order of the parameters, envelope-shaped or not.
C23_LaterKeywordWins ==
    \A c \in CallIds :
        LET k == call[c]
        IN  Len(k.invoked) = 1 =>
                /\ \A key \in DOMAIN k.invoked[1].kwargs :
                      /\ Suppliers(k.params, key) # {}
                      /\ k.invoked[1].kwargs[key]
                            = KwargsOfParam(k.params[Last(Suppliers(k.params, key))])[key]
                /\ \A j \in 1..Len(k.params) :
                      DOMAIN KwargsOfParam(k.params[j]) \subseteq DOMAIN k.invoked[1].kwargs
                /\ k.invoked[1].args
                      = Flatten([j \in 1..Len(k.params) |-> ArgsOfParam(k.params[j])])

\* add was sent two envelopes, the first with y = 5 and the second with x = 10
\* and y = 0: it was called with y = 0 and answered 10
C23_Witness ==
    LET k == call["c1"]
    IN  /\ k.pc = "done" /\ k.name = "add" /\ Len(k.params) = 2
        /\ KwargsOfParam(k.params[1]) = ("y" :> PyInt(5))
        /\ KwargsOfParam(k.params[2]) = ("x" :> PyInt(10)) @@ ("y" :> PyInt(0))
        /\ Len(k.invoked) = 1
        /\ k.invoked[1].kwargs = ("x" :> PyInt(10)) @@ ("y" :> PyInt(0))
        /\ k.invoked[1].out = Returned(PyInt(10))

----------------------------------------------------------------------------
(* The outcome fields of a response *)

\* field f of the envelope is None, and neither of its mappings has it
Without(k, f) ==
    /\ k.env[f] = PyNone
    /\ f \notin DOMAIN k.ret.d
    /\ f \notin DOMAIN k.resp.d

\* C24: a response envelope of _dispatch with status 200 has no error, and
\* one with status 400 or 404 has an error that is a string and no result, in
\* the envelope, in its mapping and on the wire.
C24_OutcomeFieldsExclusive ==
    \A c \in CallIds :
        LET k == call[c]
        IN  Responded(k) =>
                /\ k.env.response_code = PyInt(200) => Without(k, "error")
                /\ k.env.response_code \in {PyInt(400), PyInt(404)} =>
                      /\ k.env.error.t = "str"
                      /\ k.ret.d["error"] = k.env.error
                      /\ k.resp.d["error"] = k.env.error
                      /\ Without(k, "result")

\* doesNotExist was answered 404 with the message that names it and no
\* result
C24_Witness ==
    LET k == call["c1"]
    IN  /\ k.pc = "done" /\ k.name = "doesNotExist" /\ Responded(k)
        /\ k.env.response_code = PyInt(404)
        /\ k.resp.d["error"] = PyStr(NotSupported("doesNotExist"))
        /\ "result" \notin DOMAIN k.resp.d

====
